---- MODULE Spec2Model ----
(***************************************************************************)
(* A model of pyvncreplay's stream layer (src/lib/packet_stream.py):       *)
(*   - PacketStream: a directional stream with a one-packet lookahead,     *)
(*   - PacketStreamBytes / DataStreamReader: the byte reader bound to it,  *)
(*   - ClientServerPacketStream: the client/server merger,                 *)
(*   - get_streams: the session locator;                                   *)
(* of the handshake (src/lib/rfb.py, with the structures it unpacks from   *)
(* src/lib/struct/data_structures.py):                                     *)
(*   - process_handshake, one action per packet it takes,                  *)
(*   - process_events;                                                     *)
(* of the events applied to the session context                            *)
(* (src/lib/client_events.py, server_events.py, data_structures.py):       *)
(*   - KeyEvent, ClientCutText, ServerCutText and the handler registry,    *)
(*   - PointerEvent, SetPixelFormat and FramebufferUpdate on the           *)
(*     Framebuffer (its screen, cursor and cursor path images) and on the  *)
(*     session's inflate state;                                            *)
(* and of the pixel decoders (src/lib/encodings.py, data_structures.py):   *)
(*   - decode_zrle_tile, decode_zrle, Framebuffer.decode_pixel_data.       *)
(*                                                                         *)
(* Python's Optional values are modelled as sequences of length <= 1:      *)
(* <<>> is None and <<x>> is the value x.  A packet is a record            *)
(* [time, load]; time is the capture's exact (decimal) timestamp in ticks  *)
(* and load the payload bytes (<<>>: the packet carries no Raw layer).     *)
(* Byte strings and texts are sequences of numbers (bytes, code points);   *)
(* an unpack is computed from the bytes, field by field.  An image is its  *)
(* size and its pixels, row after row.                                     *)
(***************************************************************************)
EXTENDS Integers, Sequences, FiniteSets, TLC

\* ---------------------------------------------------------------- bounds
\* Largest exact timestamp (in ticks) of a packet.
MaxTime == 2
\* Largest number of packets of one directional stream.
MaxPkts == 2

\* ------------------------------------------------------------- constants
\* class PacketOrigin
CLIENT == "CLIENT"
SERVER == "SERVER"
PacketOrigin == {CLIENT, SERVER}

\* io.SEEK_SET, io.SEEK_CUR, io.SEEK_END
SEEK_SET == 0
SEEK_CUR == 1
SEEK_END == 2

Min(a, b) == IF a < b THEN a ELSE b
Max(a, b) == IF a > b THEN a ELSE b

None == <<>>
Some(x) == <<x>>
IsNone(o) == Len(o) = 0
Val(o) == o[1]

\* float(pkt.time): pkt.time is an exact decimal and a double keeps only a
\* fixed number of significant digits, so the conversion rounds; it is
\* monotone, and exact times closer than the grain may collapse to the same
\* float.  Two ticks share one float here.
FloatGrain == 2
ToFloat(t) == (t \div FloatGrain) * FloatGrain

VARIABLES
    packets,        \* [PacketOrigin -> Seq(Packet)]: the iterables handed to the streams
    streams,        \* [PacketOrigin -> PacketStream state]: _iter, _next, _timestamp
    readers,        \* [PacketOrigin -> DataStreamReader state]: _buffer, _buffer_offset
    packet_origin,  \* ClientServerPacketStream.packet_origin
    call,           \* the last call made: its name and arguments
    ret,            \* what the last call returned or raised
    delivered,      \* the packets the merger has returned so far, with their origin
    pcap,           \* get_streams: pcap.sessions(), the capture's flows in order of appearance
    gs,             \* get_streams: its position (pc), loop index, cli_packets, srv_packets
    rfb_status,     \* process_handshake: the RFBContext it fills in
    hs,             \* process_handshake: its position (pc), locals, and the structures unpacked
    ctx,            \* the event handlers' RFBContext: _typed_text, _clipboard, _event_handlers
    fired           \* the handler invocations made so far: event, handler, argument

merger_vars == <<packets, streams, readers, packet_origin>>
locator_vars == <<pcap, gs>>
session_vars == <<rfb_status, hs, ctx, fired>>
vars == <<packets, streams, readers, packet_origin, call, ret, delivered, pcap, gs,
          rfb_status, hs, ctx, fired>>

\* ------------------------------------------------------------ PacketStream
\* next(self._iter, None) on the list iterator that has yielded i items.
IterNext(pkts, i) ==
    IF i < Len(pkts) THEN [item |-> Some(pkts[i + 1]), iter |-> i + 1]
                     ELSE [item |-> None, iter |-> i]

\* PacketStream.next_timestamp
next_timestamp(s) ==
    IF IsNone(s.next) THEN None ELSE Some(ToFloat(Val(s.next).time))

\* PacketStream.__init__ (the stream part; the reader is DataStreamReaderInit)
PacketStreamInit(pkts) ==
    LET n == IterNext(pkts, 0)
        s == [iter |-> n.iter, next |-> n.item, timestamp |-> None]
    IN  [s EXCEPT !.timestamp = next_timestamp(s)]

\* PacketStream.peek_next
peek_next(s) == s.next

\* A __next__ that advances the iterator twice, losing a packet.
PacketStreamNextSkip(pkts, s) ==
    IF IsNone(s.next)
    THEN [raised |-> TRUE, pkt |-> None, stream |-> s]
    ELSE LET n  == IterNext(pkts, s.iter)
             n2 == IterNext(pkts, n.iter)
         IN  [raised |-> FALSE, pkt |-> s.next,
              stream |-> [iter |-> n2.iter, next |-> n2.item,
                          timestamp |-> Some(ToFloat(Val(s.next).time))]]

\* PacketStream.__next__: [raised, pkt, stream]
PacketStreamNext(pkts, s) ==
    IF IsNone(s.next)
    THEN [raised |-> TRUE, pkt |-> None, stream |-> s]
    ELSE LET n == IterNext(pkts, s.iter)
         IN  [raised |-> FALSE, pkt |-> s.next,
              stream |-> [iter |-> n.iter, next |-> n.item,
                          timestamp |-> Some(ToFloat(Val(s.next).time))]]

\* DataStreamReader.__init__
DataStreamReaderInit == [buffer |-> <<>>, buffer_offset |-> 0]

\* ------------------------------------------------- ClientServerPacketStream
\* ClientServerPacketStream.__init__ on two packet lists: the new merger.
ClientServerPacketStream(cli, srv) ==
    LET pk == [d \in PacketOrigin |-> IF d = CLIENT THEN cli ELSE srv]
    IN  [packets |-> pk,
         streams |-> [d \in PacketOrigin |-> PacketStreamInit(pk[d])],
         readers |-> [d \in PacketOrigin |-> DataStreamReaderInit],
         packet_origin |-> CLIENT]

\* A next_packet_origin with the comparison turned round.
next_packet_originSwapped(ss) ==
    LET cli_time == next_timestamp(ss[CLIENT])
        srv_time == next_timestamp(ss[SERVER])
    IN  IF IsNone(srv_time)
        THEN IF IsNone(cli_time) THEN None ELSE Some(CLIENT)
        ELSE IF IsNone(cli_time) THEN Some(SERVER)
        ELSE IF Val(srv_time) > Val(cli_time) THEN Some(SERVER) ELSE Some(CLIENT)

\* ClientServerPacketStream.next_packet_origin: None, or Some(origin).
next_packet_origin(ss) ==
    LET cli_time == next_timestamp(ss[CLIENT])
        srv_time == next_timestamp(ss[SERVER])
    IN  IF IsNone(srv_time)
        THEN IF IsNone(cli_time) THEN None ELSE Some(CLIENT)
        ELSE IF IsNone(cli_time) THEN Some(SERVER)
        ELSE IF Val(srv_time) < Val(cli_time) THEN Some(SERVER) ELSE Some(CLIENT)

\* A __next__ that takes the later packet first.
MergedChoiceLater(ss) ==
    LET next_cli == peek_next(ss[CLIENT])
        next_srv == peek_next(ss[SERVER])
    IN  IF IsNone(next_cli) THEN SERVER
        ELSE IF IsNone(next_srv) THEN CLIENT
        ELSE IF Val(next_cli).time > Val(next_srv).time THEN CLIENT
        ELSE SERVER

\* The side ClientServerPacketStream.__next__ takes its packet from.
MergedChoice(ss) ==
    LET next_cli == peek_next(ss[CLIENT])
        next_srv == peek_next(ss[SERVER])
    IN  IF IsNone(next_cli) THEN SERVER
        ELSE IF IsNone(next_srv) THEN CLIENT
        ELSE IF Val(next_cli).time < Val(next_srv).time THEN CLIENT
        ELSE SERVER

\* What a call returned: a packet, a byte string, a position, or the
\* exception it raised.
RetPacket(p)  == [kind |-> "packet", pkt |-> p, data |-> <<>>, pos |-> 0]
RetBytes(b)   == [kind |-> "bytes", pkt |-> None, data |-> b, pos |-> 0]
RetPos(n)     == [kind |-> "int", pkt |-> None, data |-> <<>>, pos |-> n]
RetRaise(exc) == [kind |-> exc, pkt |-> None, data |-> <<>>, pos |-> 0]
RetNothing    == [kind |-> "none", pkt |-> None, data |-> <<>>, pos |-> 0]

\* The last call: its name, the stream it went to, its size or offset
\* argument (for an event, the message it was unpacked from), its whence
\* argument, and the reader's tell() when it was made.
Call(name, origin, size, whence, tell) ==
    [name |-> name, origin |-> origin, size |-> size, whence |-> whence, tell |-> tell]
NoCall == Call("init", CLIENT, 0, 0, 0)

\* A call by direction that is answered by the merger's timestamp rule.
TakeFromMerged(d, name) ==
    LET m == MergedChoice(streams)
        r == PacketStreamNext(packets[m], streams[m])
    IN  /\ streams' = [streams EXCEPT ![m] = r.stream]
        /\ packet_origin' = IF r.raised THEN packet_origin ELSE m
        /\ ret' = IF r.raised THEN RetRaise("StopIteration") ELSE RetPacket(r.pkt)
        /\ delivered' = IF r.raised THEN delivered
                        ELSE Append(delivered, [origin |-> m, pkt |-> Val(r.pkt)])
        /\ call' = Call(name, m, 0, 0, readers[m].buffer_offset)
        /\ UNCHANGED <<packets, readers, locator_vars>>

\* next_client / next_server: next(stream) and, when it returned, the
\* assignment of packet_origin.  A StopIteration leaves packet_origin alone.
TakeFrom(d, name) ==
    LET r == PacketStreamNext(packets[d], streams[d])
    IN  /\ streams' = [streams EXCEPT ![d] = r.stream]
        /\ packet_origin' = IF r.raised THEN packet_origin ELSE d
        /\ ret' = IF r.raised THEN RetRaise("StopIteration") ELSE RetPacket(r.pkt)
        /\ delivered' = IF r.raised THEN delivered
                        ELSE Append(delivered, [origin |-> d, pkt |-> Val(r.pkt)])
        /\ call' = Call(name, d, 0, 0, readers[d].buffer_offset)
        /\ UNCHANGED <<packets, readers, locator_vars>>

\* The same call made by a caller that holds no session context.
NextFrom(d, name) == TakeFrom(d, name) /\ UNCHANGED session_vars

\* ClientServerPacketStream.next_client
next_client == NextFrom(CLIENT, "next_client")

\* ClientServerPacketStream.next_server
next_server == NextFrom(SERVER, "next_server")

\* ClientServerPacketStream.__next__
MergedNext == NextFrom(MergedChoice(streams), "__next__")

\* ---------------------------------------------------------- DataStreamReader
\* bytes(buffer[a:b]): Python's slice, where a negative index counts from the
\* end and both indices are clipped to the buffer.
PyIndex(n, i) == IF i < 0 THEN (IF n + i < 0 THEN 0 ELSE n + i)
                 ELSE IF i > n THEN n ELSE i
PySlice(buf, a, b) == SubSeq(buf, PyIndex(Len(buf), a) + 1, PyIndex(Len(buf), b))

\* The while loop of DataStreamReader.read: next(self._datastream) is
\* PacketStreamBytes.__next__, that is next(stream).load, until the buffer
\* holds size bytes past the offset (size None: until StopIteration).
RECURSIVE ReadLoop(_, _, _, _, _)
ReadLoop(pkts, s, buf, off, size) ==
    IF IsNone(size) \/ Len(buf) - off < Val(size)
    THEN LET r == PacketStreamNext(pkts, s)
         IN  IF r.raised THEN [stream |-> s, buffer |-> buf]
             ELSE ReadLoop(pkts, r.stream, buf \o Val(r.pkt).load, off, size)
    ELSE [stream |-> s, buffer |-> buf]

\* DataStreamReader.read(size), size None or Some(n): [data, stream, reader]
ReaderRead(pkts, s, rd, size) ==
    IF size = Some(0) THEN [data |-> <<>>, stream |-> s, reader |-> rd]
    ELSE LET sz == IF ~IsNone(size) /\ Val(size) < 0 THEN None ELSE size
             f  == ReadLoop(pkts, s, rd.buffer, rd.buffer_offset, sz)
             new_offset == IF IsNone(sz) THEN Len(f.buffer)
                           ELSE rd.buffer_offset + Val(sz)
         IN  [data   |-> PySlice(f.buffer, rd.buffer_offset, new_offset),
              stream |-> f.stream,
              reader |-> [buffer |-> f.buffer, buffer_offset |-> new_offset]]

\* DataStreamReader.seek(offset, whence): [raised, pos, stream, reader]
ReaderSeek(pkts, s, rd, offset, whence) ==
    IF (whence = SEEK_SET /\ offset < 0) \/ whence \notin {SEEK_SET, SEEK_CUR, SEEK_END}
    THEN [raised |-> TRUE, pos |-> 0, stream |-> s, reader |-> rd]
    ELSE LET to_read == IF whence = SEEK_SET THEN Some(offset - rd.buffer_offset)
                        ELSE IF whence = SEEK_CUR THEN Some(offset)
                        ELSE None
         IN  IF ~IsNone(to_read) /\ Val(to_read) < 0
             THEN LET moved == rd.buffer_offset + Val(to_read)
                      off   == IF moved < 0 THEN 0 ELSE moved
                  IN  [raised |-> FALSE, pos |-> off, stream |-> s,
                       reader |-> [rd EXCEPT !.buffer_offset = off]]
             ELSE LET r   == ReaderRead(pkts, s, rd, to_read)
                      off == IF whence = SEEK_END THEN Len(r.reader.buffer) + offset
                             ELSE r.reader.buffer_offset
                  IN  [raised |-> FALSE, pos |-> off, stream |-> r.stream,
                       reader |-> [r.reader EXCEPT !.buffer_offset = off]]

\* DataStreamReader.peek(size): [data, stream, reader]
ReaderPeek(pkts, s, rd, size) ==
    IF size = 0 THEN [data |-> <<>>, stream |-> s, reader |-> rd]
    ELSE LET r == ReaderRead(pkts, s, rd, Some(size))
             k == ReaderSeek(pkts, r.stream, r.reader, -size, SEEK_CUR)
         IN  [data |-> r.data, stream |-> k.stream, reader |-> k.reader]

\* DataStreamReader.tell
tell(rd) == rd.buffer_offset

\* How far past the end of its buffer the model follows the reader's position.
MaxOver == 1
\* Largest size given to read and peek.
MaxSize == 2
\* Largest offset, forward or backward, given to seek.
MaxSeek == 3

InRange(rd) == rd.buffer_offset <= Len(rd.buffer) + MaxOver

\* stream.bytestream.read(size) on the stream of origin d
Read(d, size) ==
    LET r == ReaderRead(packets[d], streams[d], readers[d], size)
    IN  /\ InRange(r.reader)
        /\ streams' = [streams EXCEPT ![d] = r.stream]
        /\ readers' = [readers EXCEPT ![d] = r.reader]
        /\ ret' = RetBytes(r.data)
        /\ call' = Call("read", d, IF IsNone(size) THEN -1 ELSE Val(size), 0,
                        tell(readers[d]))
        /\ UNCHANGED <<packets, packet_origin, delivered, locator_vars, session_vars>>

\* stream.bytestream.seek(offset, whence)
Seek(d, offset, whence) ==
    LET r == ReaderSeek(packets[d], streams[d], readers[d], offset, whence)
    IN  /\ InRange(r.reader)
        /\ streams' = [streams EXCEPT ![d] = r.stream]
        /\ readers' = [readers EXCEPT ![d] = r.reader]
        /\ ret' = IF r.raised THEN RetRaise("ValueError") ELSE RetPos(r.pos)
        /\ call' = Call("seek", d, offset, whence, tell(readers[d]))
        /\ UNCHANGED <<packets, packet_origin, delivered, locator_vars, session_vars>>

\* stream.bytestream.peek(size)
Peek(d, size) ==
    LET r == ReaderPeek(packets[d], streams[d], readers[d], size)
    IN  /\ InRange(r.reader)
        /\ streams' = [streams EXCEPT ![d] = r.stream]
        /\ readers' = [readers EXCEPT ![d] = r.reader]
        /\ ret' = RetBytes(r.data)
        /\ call' = Call("peek", d, size, 0, tell(readers[d]))
        /\ UNCHANGED <<packets, packet_origin, delivered, locator_vars, session_vars>>

\* ------------------------------------------------------------- get_streams
\* b"RFB 003.008\n"
Banner == <<82, 70, 66, 32, 48, 48, 51, 46, 48, 48, 56, 10>>

\* A banner test without the check of the final newline.
IsBannerAnyTail(load) ==
    /\ Len(load) = 12
    /\ SubSeq(load, 1, 4) = <<82, 70, 66, 32>>

\* len(load) == 12 and load.startswith(b"RFB ") and load.endswith(b"\n")
IsBanner(load) ==
    /\ Len(load) = 12
    /\ SubSeq(load, 1, 4) = <<82, 70, 66, 32>>
    /\ load[Len(load)] = 10

\* TCP in p, Raw in p
HasTCP(p) == p.proto = "TCP"
HasRaw(p) == Len(p.load) > 0

\* list(p for p in packets if TCP in p and Raw in p)
PayloadPackets(pkts) == SelectSeq(pkts, LAMBDA p : HasTCP(p) /\ HasRaw(p))

\* next((p for p in packets if Raw in p), None)
FirstRaw(pkts) ==
    LET withRaw == SelectSeq(pkts, HasRaw)
    IN  IF Len(withRaw) = 0 THEN None ELSE Some(withRaw[1])

\* One iteration of the loop over pcap.sessions(): the flow at index gs.i.
\* A flow that is not TCP, has no payload or does not start with a banner is
\* passed over; the first flow kept becomes cli_packets, the second
\* srv_packets, and the loop breaks when both are set.
GetStreamsScan ==
    /\ gs.pc = "scan"
    /\ gs.i <= Len(pcap)
    /\ LET flow == pcap[gs.i]
           raw0 == FirstRaw(flow)
           skip == \/ ~HasTCP(flow[1])
                   \/ IsNone(raw0)
                   \/ ~IsBanner(Val(raw0).load)
           found == PayloadPackets(flow)
           cli   == IF Len(gs.cli_packets) = 0 THEN found ELSE gs.cli_packets
           srv   == IF Len(gs.cli_packets) = 0 THEN gs.cli_packets ELSE found
       IN  gs' = IF skip THEN [gs EXCEPT !.i = gs.i + 1]
                 ELSE [pc |-> IF Len(cli) > 0 /\ Len(srv) > 0 THEN "break" ELSE "scan",
                       i |-> gs.i + 1, cli_packets |-> cli, srv_packets |-> srv]
    /\ call' = Call("get_streams", CLIENT, 0, 0, 0)
    /\ UNCHANGED <<merger_vars, ret, delivered, pcap, session_vars>>

\* The loop's else branch: the flows ran out before the break.
GetStreamsNotFound ==
    /\ gs.pc = "scan"
    /\ gs.i > Len(pcap)
    /\ gs' = [gs EXCEPT !.pc = "raised"]
    /\ ret' = RetRaise("ValueError")
    /\ call' = Call("get_streams", CLIENT, 0, 0, 0)
    /\ UNCHANGED <<merger_vars, delivered, pcap, session_vars>>

\* No swap at all.
SwapIfClientFirstNever(cli, srv) == [cli_packets |-> cli, srv_packets |-> srv]

\* The swap that puts the earlier first payload on the server side.
SwapIfClientFirst(cli, srv) ==
    IF cli[1].time < srv[1].time
    THEN [cli_packets |-> srv, srv_packets |-> cli]
    ELSE [cli_packets |-> cli, srv_packets |-> srv]

\* After the break: the swap, then the merger is constructed and returned.
GetStreamsReturn ==
    /\ gs.pc = "break"
    /\ LET sw == SwapIfClientFirst(gs.cli_packets, gs.srv_packets)
           m  == ClientServerPacketStream(sw.cli_packets, sw.srv_packets)
       IN  /\ gs' = [gs EXCEPT !.pc = "returned", !.cli_packets = sw.cli_packets,
                                !.srv_packets = sw.srv_packets]
           /\ packets' = m.packets
           /\ streams' = m.streams
           /\ readers' = m.readers
           /\ packet_origin' = m.packet_origin
    /\ ret' = RetNothing
    /\ call' = Call("get_streams", CLIENT, 0, 0, 0)
    /\ UNCHANGED <<delivered, pcap, session_vars>>

\* ------------------------------------------------------ protocol structures
\* The result of an unpack: the exception it raised ("" when it returned) and
\* the structure it built.  Bytes are indexed from 1.
Unpacked(v)     == [raised |-> "", value |-> v]
UnpackRaise(exc) == [raised |-> exc, value |-> [none |-> TRUE]]

\* struct formats "H" and "I" in network byte order, at index i.
U16(b, i) == b[i] * 256 + b[i + 1]
U32(b, i) == ((b[i] * 256 + b[i + 1]) * 256 + b[i + 2]) * 256 + b[i + 3]

\* text(): UTF-8 decoding of a byte string into code points; one- and two-byte
\* sequences are decoded, anything else is refused.
RECURSIVE Utf8Decode(_)
Utf8Decode(b) ==
    IF Len(b) = 0 THEN Unpacked(<<>>)
    ELSE IF b[1] < 128
    THEN LET rest == Utf8Decode(Tail(b))
         IN  IF rest.raised /= "" THEN rest ELSE Unpacked(<<b[1]>> \o rest.value)
    ELSE IF b[1] >= 192 /\ b[1] < 224 /\ Len(b) >= 2 /\ b[2] >= 128 /\ b[2] < 192
    THEN LET rest == Utf8Decode(Tail(Tail(b)))
         IN  IF rest.raised /= "" THEN rest
             ELSE Unpacked(<<(b[1] - 192) * 64 + (b[2] - 128)>> \o rest.value)
    ELSE UnpackRaise("UnicodeDecodeError")

\* String.unpack at index i: a u32 length, then that many bytes of text.
String_unpack(b, i) ==
    IF Len(b) < i + 3 THEN UnpackRaise("UnpackError")
    ELSE LET length == U32(b, i)
         IN  IF Len(b) < i + 3 + length THEN UnpackRaise("UnpackError")
             ELSE LET t == Utf8Decode(SubSeq(b, i + 4, i + 3 + length))
                  IN  IF t.raised /= "" THEN t
                      ELSE Unpacked([length |-> length, value |-> t.value])

\* ProtocolVersion.unpack: "RFB ", three characters, ".", three characters,
\* "\n"; the three constants are verified.
ProtocolVersion_unpack(load) ==
    IF Len(load) < 12 THEN UnpackRaise("UnpackError")
    ELSE IF SubSeq(load, 1, 4) /= <<82, 70, 66, 32>> \/ load[8] /= 46 \/ load[12] /= 10
    THEN UnpackRaise("UnpackError")
    ELSE Unpacked([ver_major |-> SubSeq(load, 5, 7), ver_minor |-> SubSeq(load, 9, 11)])

\* int() of three characters: decimal digits only.
IsDigits(t) == \A i \in 1 .. Len(t) : t[i] >= 48 /\ t[i] <= 57
ToInt(t) == (t[1] - 48) * 100 + (t[2] - 48) * 10 + (t[3] - 48)

\* ProtocolVersion.version
version(pv) == <<ToInt(pv.ver_major), ToInt(pv.ver_minor)>>

\* ProtocolVersion.__lt__: tuple order on version.
ProtocolVersion_lt(a, b) ==
    \/ version(a)[1] < version(b)[1]
    \/ version(a)[1] = version(b)[1] /\ version(a)[2] < version(b)[2]

\* SecurityTypeVal and SecurityResultVal: the values the enumerations hold.
NONE == 1
VNC_AUTHENTICATION == 2
TIGHT == 16
SecurityTypeVal == {0, 1, 2, 5, 6, 13, 16, 19, 20, 22, 30, 113, 129, 130, 133}
OK == 0
FAILED == 1
SecurityResultVal == {OK, FAILED}

\* SupportedSecurityTypes.unpack: a count byte, then that many type bytes.
SupportedSecurityTypes_unpack(load) ==
    IF Len(load) < 1 THEN UnpackRaise("UnpackError")
    ELSE IF Len(load) < 1 + load[1] THEN UnpackRaise("UnpackError")
    ELSE Unpacked([num_types |-> load[1], types |-> SubSeq(load, 2, 1 + load[1])])

\* SelectedSecurityType.unpack: one byte, decoded by the enumeration, which
\* refuses a value it does not hold.
SelectedSecurityType_unpack(load) ==
    IF Len(load) < 1 THEN UnpackRaise("UnpackError")
    ELSE IF load[1] \notin SecurityTypeVal THEN UnpackRaise("ValueError")
    ELSE Unpacked([type |-> load[1]])

\* VNCSecurityChallenge.unpack: sixteen bytes.
VNCSecurityChallenge_unpack(load) ==
    IF Len(load) < 16 THEN UnpackRaise("UnpackError")
    ELSE Unpacked([challenge |-> SubSeq(load, 1, 16)])

\* SecurityResult.unpack: a u32, decoded by the enumeration.
SecurityResult_unpack(load) ==
    IF Len(load) < 4 THEN UnpackRaise("UnpackError")
    ELSE IF U32(load, 1) \notin SecurityResultVal THEN UnpackRaise("ValueError")
    ELSE Unpacked([result |-> U32(load, 1)])

\* ClientInit.unpack: one byte as a boolean.
ClientInit_unpack(load) ==
    IF Len(load) < 1 THEN UnpackRaise("UnpackError")
    ELSE Unpacked([shared |-> load[1] /= 0])

\* PixelFormat.unpack at index i: thirteen bytes of fields, aligned to sixteen.
PixelFormat_unpack(b, i) ==
    [bits_per_pixel |-> b[i], depth |-> b[i + 1],
     big_endian |-> b[i + 2] /= 0, true_colour |-> b[i + 3] /= 0,
     red_max |-> U16(b, i + 4), green_max |-> U16(b, i + 6), blue_max |-> U16(b, i + 8),
     red_shift |-> b[i + 10], green_shift |-> b[i + 11], blue_shift |-> b[i + 12]]

\* ServerInit.unpack: width, height, pixel format, name.
ServerInit_unpack(load) ==
    IF Len(load) < 20 THEN UnpackRaise("UnpackError")
    ELSE LET name == String_unpack(load, 21)
         IN  IF name.raised /= "" THEN name
             ELSE Unpacked([width |-> U16(load, 1), height |-> U16(load, 3),
                            pix_fmt |-> PixelFormat_unpack(load, 5),
                            name |-> name.value])

\* A from_serverinit that takes the two dimensions the wrong way round.
from_serverinitTransposed(serverinit) ==
    [width |-> serverinit.height, height |-> serverinit.width,
     pix_fmt |-> serverinit.pix_fmt]

\* Framebuffer.from_serverinit
from_serverinit(serverinit) ==
    [width |-> serverinit.width, height |-> serverinit.height,
     pix_fmt |-> serverinit.pix_fmt]

\* -------------------------------------------------------- process_handshake
\* RFBContext(): every field None.
RFBContextInit ==
    [client |-> None, server |-> None, client_version |-> None,
     server_version |-> None, security |-> None, shared_access |-> None,
     name |-> None, framebuffer |-> None]

\* process_handshake has not been called.
HandshakeIdle == [pc |-> "idle", srv0 |-> None, unpacked |-> <<>>, exc |-> ""]

\* The handshake left by an exception at the current statement.
Raise(exc) == [hs EXCEPT !.pc = "raised", !.exc = exc]
\* The handshake past the current statement, which unpacked structure st.
Goto(pc, st) == [hs EXCEPT !.pc = pc, !.unpacked = Append(hs.unpacked, st)]

\* The call stream.next_srv_load() / stream.next_cli_load() at statement pc,
\* whose load is unpacked by unpack as structure st; then(v) is what the
\* statement does with the structure, a pair of the next rfb_status and hs.
TakeLoad(pc, d, name, unpack(_), st, then(_)) ==
    /\ hs.pc = pc
    /\ TakeFrom(d, name)
    /\ IF ret'.kind /= "packet"
       THEN /\ hs' = Raise("StopIteration")
            /\ UNCHANGED rfb_status
       ELSE LET u == unpack(Val(ret'.pkt).load)
            IN  IF u.raised /= ""
                THEN /\ hs' = [Raise(u.raised) EXCEPT !.unpacked = Append(hs.unpacked, st)]
                     /\ UNCHANGED rfb_status
                ELSE /\ rfb_status' = then(u.value)[1]
                     /\ hs' = then(u.value)[2]
    /\ UNCHANGED <<ctx, fired>>

\* srv0 = stream.next_server()
HandshakeSrv0 ==
    /\ hs.pc = "srv0"
    /\ TakeFrom(SERVER, "next_server")
    /\ hs' = IF ret'.kind /= "packet" THEN Raise("StopIteration")
             ELSE [hs EXCEPT !.pc = "cli0", !.srv0 = ret'.pkt]
    /\ UNCHANGED <<rfb_status, ctx, fired>>

\* cli0 = stream.next_client(), then the endpoints and the two versions.
\* Printing a version converts its two parts with int().
HandshakeCli0 ==
    /\ hs.pc = "cli0"
    /\ TakeFrom(CLIENT, "next_client")
    /\ IF ret'.kind /= "packet"
       THEN /\ hs' = Raise("StopIteration")
            /\ UNCHANGED rfb_status
       ELSE LET srv0 == Val(hs.srv0)
                cli0 == Val(ret'.pkt)
                ends == [rfb_status EXCEPT !.server = Some(<<srv0.src, srv0.sport>>),
                                           !.client = Some(<<cli0.src, cli0.sport>>)]
                sv   == ProtocolVersion_unpack(srv0.load)
                cv   == ProtocolVersion_unpack(cli0.load)
                both == [ends EXCEPT !.server_version = Some(sv.value),
                                     !.client_version = Some(cv.value)]
                seen == hs.unpacked \o <<"ProtocolVersion", "ProtocolVersion">>
            IN  IF sv.raised /= ""
                THEN /\ rfb_status' = ends
                     /\ hs' = [Raise(sv.raised) EXCEPT
                                  !.unpacked = Append(hs.unpacked, "ProtocolVersion")]
                ELSE IF cv.raised /= ""
                THEN /\ rfb_status' = [ends EXCEPT !.server_version = Some(sv.value)]
                     /\ hs' = [Raise(cv.raised) EXCEPT !.unpacked = seen]
                ELSE /\ rfb_status' = both
                     /\ hs' = IF /\ IsDigits(sv.value.ver_major) /\ IsDigits(sv.value.ver_minor)
                                 /\ IsDigits(cv.value.ver_major) /\ IsDigits(cv.value.ver_minor)
                              THEN [hs EXCEPT !.pc = "srv_security_types", !.unpacked = seen]
                              ELSE [Raise("ValueError") EXCEPT !.unpacked = seen]
    /\ UNCHANGED <<ctx, fired>>

\* srv_security_types = SupportedSecurityTypes.unpack(stream.next_srv_load())
HandshakeSrvSecurityTypes ==
    TakeLoad("srv_security_types", SERVER, "next_srv_load",
             SupportedSecurityTypes_unpack, "SupportedSecurityTypes",
             LAMBDA v : <<rfb_status, Goto("cli_security_selected", "SupportedSecurityTypes")>>)

\* A match without the default case: any other type goes on as NONE does.
CliSecuritySelectedThenLenient(v) ==
    <<[rfb_status EXCEPT !.security = Some(v.type)],
      IF v.type = VNC_AUTHENTICATION
      THEN Goto("srv_vnc_challenge", "SelectedSecurityType")
      ELSE Goto("srv_security_result", "SelectedSecurityType")>>

\* cli_security_selected = SelectedSecurityType.unpack(stream.next_cli_load()),
\* the assignment of rfb_status.security, and the match on it.
CliSecuritySelectedThen(v) ==
    <<[rfb_status EXCEPT !.security = Some(v.type)],
      IF v.type = NONE THEN Goto("srv_security_result", "SelectedSecurityType")
      ELSE IF v.type = VNC_AUTHENTICATION
      THEN Goto("srv_vnc_challenge", "SelectedSecurityType")
      ELSE [Raise("ValueError") EXCEPT
               !.unpacked = Append(hs.unpacked, "SelectedSecurityType")]>>
HandshakeCliSecuritySelected ==
    TakeLoad("cli_security_selected", CLIENT, "next_cli_load",
             SelectedSecurityType_unpack, "SelectedSecurityType", CliSecuritySelectedThen)

\* srv_vnc_challenge = VNCSecurityChallenge.unpack(stream.next_srv_load())
HandshakeSrvVncChallenge ==
    TakeLoad("srv_vnc_challenge", SERVER, "next_srv_load",
             VNCSecurityChallenge_unpack, "VNCSecurityChallenge",
             LAMBDA v : <<rfb_status, Goto("cli_vnc_challenge", "VNCSecurityChallenge")>>)

\* cli_vnc_challenge = VNCSecurityChallenge.unpack(stream.next_cli_load())
HandshakeCliVncChallenge ==
    TakeLoad("cli_vnc_challenge", CLIENT, "next_cli_load",
             VNCSecurityChallenge_unpack, "VNCSecurityChallenge",
             LAMBDA v : <<rfb_status, Goto("srv_security_result", "VNCSecurityChallenge")>>)

\* A result test that lets every result through.
ResultAcceptedAlways(result) == TRUE

\* srv_security_result.result is SecurityResultVal.OK
ResultAccepted(result) == result = OK

\* srv_security_result = SecurityResult.unpack(stream.next_srv_load()) and the
\* test of the result.
HandshakeSrvSecurityResult ==
    TakeLoad("srv_security_result", SERVER, "next_srv_load",
             SecurityResult_unpack, "SecurityResult",
             LAMBDA v :
                 <<rfb_status,
                   IF ResultAccepted(v.result) THEN Goto("cli_init", "SecurityResult")
                   ELSE [Raise("ValueError") EXCEPT
                            !.unpacked = Append(hs.unpacked, "SecurityResult")]>>)

\* cli_init = ClientInit.unpack(stream.next_cli_load()) and the assignment of
\* rfb_status.shared_access.
HandshakeCliInit ==
    TakeLoad("cli_init", CLIENT, "next_cli_load", ClientInit_unpack, "ClientInit",
             LAMBDA v : <<[rfb_status EXCEPT !.shared_access = Some(v.shared)],
                          Goto("srv_init", "ClientInit")>>)

\* srv_init = ServerInit.unpack(stream.next_srv_load()) and the assignment of
\* rfb_status.framebuffer; process_handshake returns.
HandshakeSrvInit ==
    TakeLoad("srv_init", SERVER, "next_srv_load", ServerInit_unpack, "ServerInit",
             LAMBDA v : <<[rfb_status EXCEPT !.framebuffer = Some(from_serverinit(v))],
                          Goto("returned", "ServerInit")>>)

\* process_events(stream, rfb_status), called by process_pcap once the
\* handshake has returned: its body is pass.
process_events ==
    /\ hs.pc = "returned"
    /\ hs' = [hs EXCEPT !.pc = "done"]
    /\ UNCHANGED <<merger_vars, call, ret, delivered, locator_vars, rfb_status, ctx, fired>>

\* ------------------------------------------------------------ client events
\* The session context the events are applied to: RFBContext with its
\* _typed_text, _clipboard and _event_handlers.  The handler registry maps an
\* event name to None or to the handler registered for it.
EventNames == {"type_key", "clipboard", "screen_update"}
EventContextInit ==
    [typed_text |-> <<>>, clipboard |-> <<>>,
     event_handlers |-> [e \in EventNames |-> None],
     framebuffer |-> None, zlib_decompressor |-> [fed |-> <<>>, window |-> <<>>, bad |-> FALSE]]

\* RFBContext.on
on(c, event, handler) == [c EXCEPT !.event_handlers[event] = Some(handler)]

\* self._event_handlers.get(event, None) and, if it is not None, handler(arg):
\* the invocations a call adds to those made so far.
Invoke(c, event, arg) ==
    LET handler == c.event_handlers[event]
    IN  IF IsNone(handler) THEN <<>>
        ELSE <<[event |-> event, handler |-> Val(handler), arg |-> arg]>>

\* XKey.get_name(key, raw_chars=True): the literal character of a printable
\* key, the catalog name of any other.
\* Keys 65293 and 65505 are Return and Shift_L.
XKey_get_name(key) ==
    IF key >= 32 /\ key <= 126 THEN <<key>>
    ELSE IF key = 65293 THEN <<82, 101, 116, 117, 114, 110>>
    ELSE IF key = 65505 THEN <<83, 104, 105, 102, 116, 95, 76>>
    ELSE <<>>

\* A type_key that puts the key's text in front of what was typed.
type_keyPrepend(c, key) ==
    [ctx |-> [c EXCEPT !.typed_text = XKey_get_name(key) \o c.typed_text],
     fired |-> Invoke(c, "type_key", key)]

\* RFBContext.type_key: the context afterwards and the invocations made.
type_key(c, key) ==
    [ctx |-> [c EXCEPT !.typed_text = c.typed_text \o XKey_get_name(key)],
     fired |-> Invoke(c, "type_key", key)]

\* A clipboard setter that stores the value only while the clipboard is empty.
clipboard_setterKeepFirst(c, value) ==
    [ctx |-> IF c.clipboard = <<>> THEN [c EXCEPT !.clipboard = value] ELSE c,
     fired |-> Invoke(c, "clipboard", value)]

\* RFBContext.clipboard (setter): the context afterwards and the invocations.
clipboard_setter(c, value) ==
    [ctx |-> [c EXCEPT !.clipboard = value],
     fired |-> Invoke(c, "clipboard", value)]

\* latin1(): Latin-1 decoding, each byte to the code point of the same number.
Latin1Decode(b) == [i \in 1 .. Len(b) |-> b[i]]

\* StringLatin1.unpack at index i: a u32 length, then that many bytes of text.
StringLatin1_unpack(b, i) ==
    IF Len(b) < i + 3 THEN UnpackRaise("UnpackError")
    ELSE LET length == U32(b, i)
         IN  IF Len(b) < i + 3 + length THEN UnpackRaise("UnpackError")
             ELSE Unpacked([length |-> length,
                            value |-> Latin1Decode(SubSeq(b, i + 4, i + 3 + length))])

\* KeyEvent.unpack on the bytes after the message type: the down flag, two
\* bytes of padding, the key.
KeyEvent_unpack(b) ==
    IF Len(b) < 7 THEN UnpackRaise("UnpackError")
    ELSE Unpacked([is_down |-> b[1] /= 0, key |-> U32(b, 4)])

\* ClientCutText.unpack / ServerCutText.unpack on the bytes after the message
\* type: three bytes of padding, the text.
CutText_unpack(b) ==
    IF Len(b) < 3 THEN UnpackRaise("UnpackError")
    ELSE LET text == StringLatin1_unpack(b, 4)
         IN  IF text.raised /= "" THEN text ELSE Unpacked([text |-> text.value])

\* The bounds of the replayed session: characters typed, handler invocations.
MaxTyped == 7
MaxFired == 2

\* ctx.on(event, handler)
On(event, handler) ==
    /\ ctx' = on(ctx, event, handler)
    /\ call' = Call("on", CLIENT, 0, 0, 0)
    /\ UNCHANGED <<merger_vars, ret, delivered, locator_vars, rfb_status, hs, fired>>

\* The effect of an event on the context and on the handlers.
Apply(name, msg, r) ==
    /\ Len(r.ctx.typed_text) <= MaxTyped
    /\ Len(fired) + Len(r.fired) <= MaxFired
    /\ ctx' = r.ctx
    /\ fired' = fired \o r.fired
    /\ call' = Call(name, CLIENT, msg, 0, 0)
    /\ UNCHANGED <<merger_vars, delivered, locator_vars, rfb_status, hs>>

\* A message that cannot be unpacked: the exception leaves the context alone.
Refuse(name, msg, exc) ==
    /\ ret' = RetRaise(exc)
    /\ call' = Call(name, CLIENT, msg, 0, 0)
    /\ UNCHANGED <<merger_vars, delivered, locator_vars, session_vars>>

\* KeyEvent.process on the event unpacked from msg.
KeyEvent_process(msg) ==
    LET ev == KeyEvent_unpack(msg)
    IN  IF ev.raised /= "" THEN Refuse("KeyEvent", msg, ev.raised)
        ELSE /\ ret' = RetNothing
             /\ Apply("KeyEvent", msg,
                      IF ev.value.is_down THEN type_key(ctx, ev.value.key)
                      ELSE [ctx |-> ctx, fired |-> <<>>])

\* ClientCutText.process on the event unpacked from msg.
ClientCutText_process(msg) ==
    LET ev == CutText_unpack(msg)
    IN  IF ev.raised /= "" THEN Refuse("ClientCutText", msg, ev.raised)
        ELSE /\ ret' = RetNothing
             /\ Apply("ClientCutText", msg, clipboard_setter(ctx, ev.value.text.value))

\* ServerCutText.process on the event unpacked from msg.
ServerCutText_process(msg) ==
    LET ev == CutText_unpack(msg)
    IN  IF ev.raised /= "" THEN Refuse("ServerCutText", msg, ev.raised)
        ELSE /\ ret' = RetNothing
             /\ Apply("ServerCutText", msg, clipboard_setter(ctx, ev.value.text.value))

\* No session: no handshake has run and no event has been applied.
SessionIdle ==
    /\ rfb_status = RFBContextInit
    /\ hs = HandshakeIdle
    /\ ctx = EventContextInit
    /\ fired = <<>>

\* ---------------------------------------------------------- pixel encodings
\* BasicPixelFormat.bytes_per_pixel
bytes_per_pixel(pf) == pf.bits_per_pixel \div 8

\* BasicPixelFormat.cpixel_size
cpixel_size(pf) ==
    IF pf.true_colour /\ pf.bits_per_pixel = 32 /\ pf.depth <= 24 THEN 3
    ELSE bytes_per_pixel(pf)

\* BasicPixelFormat.decode_cpixel
decode_cpixel(pf, cpixel) == IF cpixel_size(pf) = 3 THEN <<0>> \o cpixel ELSE cpixel

\* get_rle_length on a stream over the bytes d at offset p (counted from 0),
\* length being the sum so far: the exception raised, the length, the offset
\* afterwards.  read_byte gives -1 at the end of the data.
RECURSIVE get_rle_length(_, _, _)
get_rle_length(d, p, length) ==
    LET b == IF p < Len(d) THEN d[p + 1] ELSE -1
    IN  IF b < 0 THEN [raised |-> "ValueError", value |-> length, pos |-> p]
        ELSE IF b < 255 THEN [raised |-> "", value |-> length + b, pos |-> p + 1]
        ELSE get_rle_length(d, p + 1, length + b)

\* iterate_bitfields, one resumption of the generator.  g is None before the
\* first value and otherwise holds the byte and the bit offset of the value
\* last yielded; skip is the value sent in.  A value other than None cannot be
\* sent to a generator that has not started.
iterate_bitfields(data, bitfield_size, g, skip) ==
    IF IsNone(g) /\ skip THEN [raised |-> "TypeError", value |-> 0, g |-> g]
    ELSE LET at == IF IsNone(g) THEN [b |-> 0, i |-> 0]
                   ELSE IF skip \/ Val(g).i + bitfield_size >= 8
                        THEN [b |-> Val(g).b + 1, i |-> 0]
                        ELSE [b |-> Val(g).b, i |-> Val(g).i + bitfield_size]
         IN  IF at.b >= Len(data)
             THEN [raised |-> "StopIteration", value |-> 0,
                   g |-> Some([b |-> Len(data), i |-> 0])]
             ELSE [raised |-> "", g |-> Some(at),
                   value |-> (data[at.b + 1] \div 2 ^ (8 - bitfield_size - at.i))
                             % 2 ^ bitfield_size]

\* A tile returned as decoded, neither cut nor filled up.
tile_pixdataAsDecoded(pixdata, total_size) == pixdata

\* decode_zrle_tile, its end: what was decoded is cut to the tile's size when
\* it is longer and filled up with zeros when it is shorter.
tile_pixdata(pixdata, total_size) ==
    IF Len(pixdata) > total_size THEN SubSeq(pixdata, 1, total_size)
    ELSE pixdata \o [k \in 1 .. total_size - Len(pixdata) |-> 0]

\* decode_zrle_tile on the stream d at offset p: the exception raised, the
\* tile's bytes, the offset afterwards.
decode_zrle_tile(d, p, size, pix_fmt) ==
    LET width == size[1]
        height == size[2]
        cps == cpixel_size(pix_fmt)
        total_size == width * height * cps
        \* io.read(n) at offset q: the bytes returned; the offset afterwards
        \* is Min(q + n, Len(d))
        read(q, n) == SubSeq(d, Min(q, Len(d)) + 1, Min(q + n, Len(d)))
        read_byte(q) == IF q < Len(d) THEN d[q + 1] ELSE -1
        read_cpixel(q) == decode_cpixel(pix_fmt, read(q, cps))
        get_palette(q, palette_size) ==
            [k \in 1 .. palette_size |-> read_cpixel(q + (k - 1) * cps)]
        \* bytes * n: n copies of a byte string, none when n is not positive
        Repeat(s, n) == [k \in 1 .. Len(s) * n |-> s[((k - 1) % Len(s)) + 1]]
        subencoding == read_byte(p)
        Returned(pixdata, pos) ==
            [raised |-> "", pos |-> Min(pos, Len(d)),
             pixdata |-> tile_pixdata(pixdata, total_size)]
        Raised(exc, pos) == [raised |-> exc, pos |-> Min(pos, Len(d)), pixdata |-> <<>>]
        \* the packed palette: the join of a row's first width - 1 entries
        RECURSIVE Joined(_, _, _, _, _)
        Joined(palette, packed, bits, k, row) ==
            IF k <= 0 THEN row
            ELSE CHOOSE joined \in
                     {IF n.raised /= ""
                      THEN [raised |-> "RuntimeError", g |-> n.g, bytes |-> <<>>]
                      ELSE IF n.value >= Len(palette)
                      THEN [raised |-> "IndexError", g |-> n.g, bytes |-> <<>>]
                      ELSE CHOOSE rest \in
                               {Joined(palette, packed, bits, k - 1, longer) :
                                    longer \in {[raised |-> "", g |-> n.g,
                                                 bytes |-> row.bytes
                                                           \o palette[n.value + 1]]}} : TRUE :
                          n \in {iterate_bitfields(packed, bits, row.g, FALSE)}} : TRUE
        \* the packed palette: the rows, one after the other
        RECURSIVE Rows(_, _, _, _, _, _)
        Rows(palette, packed, bits, rows, g, pixdata) ==
            IF rows <= 0 THEN Returned(pixdata, p + 1 + Len(palette) * cps + Len(packed))
            ELSE CHOOSE decoded \in
                     {IF j.raised = "IndexError" THEN Raised("IndexError", Len(d))
                      ELSE IF j.raised /= ""
                      THEN Rows(palette, packed, bits, rows - 1, j.g, pixdata)
                      ELSE CHOOSE rest \in
                               {IF last.raised = "TypeError" THEN Raised("TypeError", Len(d))
                                ELSE IF last.raised /= ""
                                THEN Rows(palette, packed, bits, rows - 1, last.g,
                                          pixdata \o j.bytes)
                                ELSE IF last.value >= Len(palette)
                                THEN Raised("IndexError", Len(d))
                                ELSE Rows(palette, packed, bits, rows - 1, last.g,
                                          pixdata \o j.bytes \o palette[last.value + 1]) :
                                    last \in {iterate_bitfields(packed, bits, j.g, TRUE)}} :
                               TRUE :
                          j \in {Joined(palette, packed, bits, width - 1,
                                        [raised |-> "", g |-> g, bytes |-> <<>>])}} : TRUE
        \* plain RLE: runs of one compact pixel
        RECURSIVE Plain(_, _)
        Plain(pos, pixdata) ==
            IF Len(pixdata) >= total_size THEN Returned(pixdata, pos)
            ELSE LET pix == read_cpixel(pos)
                     rle == get_rle_length(d, Min(pos + cps, Len(d)), 1)
                 IN  IF rle.raised /= "" THEN Returned(pixdata, rle.pos)
                     ELSE Plain(rle.pos, pixdata \o Repeat(pix, rle.value))
        \* palette RLE: runs of one palette entry
        RECURSIVE PaletteRle(_, _, _)
        PaletteRle(palette, pos, pixdata) ==
            IF Len(pixdata) >= total_size THEN Returned(pixdata, pos)
            ELSE LET palette_idx == read_byte(pos)
                     rle == get_rle_length(d, pos + 1, 1)
                 IN  IF palette_idx < 0 THEN Returned(pixdata, pos)
                     ELSE IF palette_idx < 128
                     THEN IF palette_idx >= Len(palette) THEN Raised("IndexError", pos + 1)
                          ELSE PaletteRle(palette, pos + 1,
                                          pixdata \o palette[palette_idx + 1])
                     ELSE IF rle.raised /= "" THEN Returned(pixdata, rle.pos)
                     ELSE IF palette_idx - 128 >= Len(palette)
                     THEN Raised("IndexError", rle.pos)
                     ELSE PaletteRle(palette, rle.pos,
                                     pixdata \o Repeat(palette[palette_idx - 127],
                                                       rle.value))
    IN  IF subencoding < 0 THEN Returned(<<>>, p)
        ELSE IF subencoding = 0 THEN Returned(read(p + 1, total_size), p + 1 + total_size)
        ELSE IF subencoding = 1
        THEN Returned(Repeat(read(p + 1, cps), width * height), p + 1 + cps)
        ELSE IF subencoding <= 16
        THEN LET palette == get_palette(p + 1, subencoding)
                 bits == IF subencoding = 2 THEN 1 ELSE IF subencoding <= 4 THEN 2 ELSE 4
                 m == ((width + (8 \div bits) - 1) \div (8 \div bits)) * height
                 packed_pixels == read(p + 1 + subencoding * cps, m)
             IN  Rows(palette, packed_pixels, bits, height, None, <<>>)
        ELSE IF subencoding <= 127 \/ subencoding = 129 THEN Returned(<<>>, p + 1)
        ELSE IF subencoding = 128 THEN Plain(p + 1, <<>>)
        ELSE PaletteRle(get_palette(p + 1, subencoding - 128),
                        p + 1 + (subencoding - 128) * cps, <<>>)

\* decode_zrle, for row in range(tile_h): pixdata[start:end] = tile_data[...]
\* in a rectangle width pixels wide, the rows from row up to to, one after the
\* other.  A slice assignment replaces the slice by the value, whatever their
\* lengths.
RECURSIVE copy_rows(_, _, _, _, _, _, _)
copy_rows(row, to, tile, tile_data, pixdata, width, bpp) ==
    IF row >= to THEN pixdata
    ELSE IF to - row > 1
    THEN \* the first half of the rows, then the second half on what they left
         CHOOSE copied \in
             {copy_rows((row + to) \div 2, to, tile, tile_data, half, width, bpp) :
                  half \in {copy_rows(row, (row + to) \div 2, tile, tile_data, pixdata,
                                      width, bpp)}} : TRUE
    ELSE LET start == (tile.x + (tile.y + row) * width) * bpp
             end == start + tile.w * bpp
         IN  PySlice(pixdata, 0, start)
             \o PySlice(tile_data, row * tile.w * bpp, (row + 1) * tile.w * bpp)
             \o PySlice(pixdata, end, Len(pixdata))

\* decode_zrle: the exception raised, the bytes returned and, for the check of
\* the tiling, the offset and size of every tile handed to decode_zrle_tile,
\* in the order of the calls.
decode_zrle(data, size, pix_fmt) ==
    LET width == size[1]
        height == size[2]
        bpp == bytes_per_pixel(pix_fmt)
        \* while tile_x < width
        RECURSIVE Inner(_, _, _)
        Inner(tile_y, tile_w, st) ==
            IF st.raised /= "" \/ st.tile_x >= width THEN st
            ELSE LET tile == [x |-> st.tile_x, y |-> tile_y, w |-> tile_w,
                              h |-> Min(64, height - tile_y)]
                     Decoded(t) ==
                         Inner(tile_y, tile_w,
                               [raised |-> t.raised, pos |-> t.pos,
                                tile_x |-> st.tile_x + 64,
                                tiles |-> Append(st.tiles, tile),
                                value |-> IF t.raised /= "" THEN <<>>
                                          ELSE copy_rows(0, tile.h, tile, t.pixdata,
                                                         st.value, width, bpp)])
                 IN  Decoded(decode_zrle_tile(data, st.pos, <<tile.w, tile.h>>, pix_fmt))
        \* while tile_y < height
        RECURSIVE Outer(_, _)
        Outer(tile_y, st) ==
            IF st.raised /= "" \/ tile_y >= height THEN st
            ELSE Outer(tile_y + 64, Inner(tile_y, Min(64, width - st.tile_x), st))
    IN  Outer(0, [raised |-> "", pos |-> 0, tile_x |-> 0, tiles |-> <<>>,
                  value |-> [k \in 1 .. width * height * bpp |-> 0]])

\* ------------------------------------------------------------- framebuffer
\* An image is its width, its height and its pixels row after row, a pixel
\* being the tuple of its bands.  Framebuffer(width, height, pix_fmt) with
\* __post_init__: Image.new gives an RGB screen and an RGBA cursor path of the
\* framebuffer's size, every band 0; there is no cursor and no handler.
Framebuffer(width, height, pix_fmt) ==
    LET Image_new(bands) ==
            [width |-> width, height |-> height,
             data |-> [k \in 1 .. width * height |-> [c \in 1 .. bands |-> 0]]]
    IN  [width |-> width, height |-> height, pix_fmt |-> pix_fmt, cursor |-> None,
         screen |-> Image_new(3), cursor_img |-> None,
         cursor_path_img |-> Image_new(4), cursor_center |-> <<0, 0>>,
         event_handlers |->
             [e \in {"screen_update", "update_cursor", "update_cursor_position"}
                 |-> None]]

\* decode_pixel_data giving the channels as they are in the pixel, not brought
\* to 0..255.
decode_pixel_dataUnscaled(pix_fmt, pix_data) ==
    LET bpp == bytes_per_pixel(pix_fmt)
        pixels == (Len(pix_data) + bpp - 1) \div bpp
        Bit(pixel, k) ==
            LET at == IF pix_fmt.big_endian THEN Len(pixel) - (k \div 8)
                      ELSE (k \div 8) + 1
            IN  IF at < 1 \/ at > Len(pixel) THEN 0
                ELSE (pixel[at] \div 2 ^ (k % 8)) % 2
        RECURSIVE Channel(_, _, _, _)
        Channel(pixel, shift, max, k) ==
            IF k > 15 THEN 0
            ELSE Bit(pixel, k + shift) * ((max \div 2 ^ k) % 2) * 2 ^ k
                 + Channel(pixel, shift, max, k + 1)
        Scaled(pixel, shift, max) == Channel(pixel, shift, max, 0)
        Pixel(i) == PySlice(pix_data, (i - 1) * bpp, i * bpp)
    IN  IF ~pix_fmt.true_colour \/ bpp = 0 THEN UnpackRaise("ValueError")
        ELSE IF pixels > 0 /\ 0 \in {pix_fmt.red_max, pix_fmt.green_max, pix_fmt.blue_max}
        THEN UnpackRaise("ZeroDivisionError")
        ELSE Unpacked([k \in 1 .. 3 * pixels |->
                 LET pixel == Pixel(((k - 1) \div 3) + 1)
                 IN  IF k % 3 = 1 THEN Scaled(pixel, pix_fmt.red_shift, pix_fmt.red_max)
                     ELSE IF k % 3 = 2
                     THEN Scaled(pixel, pix_fmt.green_shift, pix_fmt.green_max)
                     ELSE Scaled(pixel, pix_fmt.blue_shift, pix_fmt.blue_max)])

\* Framebuffer.decode_pixel_data.  (p >> shift) & max is computed bit by bit
\* from the pixel's bytes, so that no intermediate value exceeds a channel.
decode_pixel_data(pix_fmt, pix_data) ==
    LET bpp == bytes_per_pixel(pix_fmt)
        pixels == (Len(pix_data) + bpp - 1) \div bpp
        Bit(pixel, k) ==
            LET at == IF pix_fmt.big_endian THEN Len(pixel) - (k \div 8)
                      ELSE (k \div 8) + 1
            IN  IF at < 1 \/ at > Len(pixel) THEN 0
                ELSE (pixel[at] \div 2 ^ (k % 8)) % 2
        RECURSIVE Channel(_, _, _, _)
        Channel(pixel, shift, max, k) ==
            IF k > 15 THEN 0
            ELSE Bit(pixel, k + shift) * ((max \div 2 ^ k) % 2) * 2 ^ k
                 + Channel(pixel, shift, max, k + 1)
        Scaled(pixel, shift, max) == (Channel(pixel, shift, max, 0) * 255) \div max
        Pixel(i) == PySlice(pix_data, (i - 1) * bpp, i * bpp)
    IN  IF ~pix_fmt.true_colour \/ bpp = 0 THEN UnpackRaise("ValueError")
        ELSE IF pixels > 0 /\ 0 \in {pix_fmt.red_max, pix_fmt.green_max, pix_fmt.blue_max}
        THEN UnpackRaise("ZeroDivisionError")
        ELSE Unpacked([k \in 1 .. 3 * pixels |->
                 LET pixel == Pixel(((k - 1) \div 3) + 1)
                 IN  IF k % 3 = 1 THEN Scaled(pixel, pix_fmt.red_shift, pix_fmt.red_max)
                     ELSE IF k % 3 = 2
                     THEN Scaled(pixel, pix_fmt.green_shift, pix_fmt.green_max)
                     ELSE Scaled(pixel, pix_fmt.blue_shift, pix_fmt.blue_max)])

\* Image.frombytes(mode, size, data): too few bytes are refused, bytes past
\* the image are ignored.
frombytes(bands, size, data) ==
    IF Len(data) < size[1] * size[2] * bands THEN UnpackRaise("ValueError")
    ELSE Unpacked([width |-> size[1], height |-> size[2],
                   data |-> [k \in 1 .. size[1] * size[2] |->
                                SubSeq(data, (k - 1) * bands + 1, k * bands)]])

\* A paste that makes the pasted image the whole image when it is pasted at
\* the origin.
pasteReplacing(image, img, x, y) ==
    IF x = 0 /\ y = 0 THEN img
    ELSE [image EXCEPT !.data =
             [k \in 1 .. Len(image.data) |->
                 LET i == (k - 1) % image.width
                     j == (k - 1) \div image.width
                 IN  IF i >= x /\ i < x + img.width /\ j >= y /\ j < y + img.height
                     THEN img.data[(j - y) * img.width + (i - x) + 1]
                     ELSE image.data[k]]]

\* Image.paste(img, (x, y)): the part of img that falls on the image replaces
\* what was there; the image keeps its size.
paste(image, img, x, y) ==
    [image EXCEPT !.data =
        [k \in 1 .. Len(image.data) |->
            LET i == (k - 1) % image.width
                j == (k - 1) \div image.width
            IN  IF i >= x /\ i < x + img.width /\ j >= y /\ j < y + img.height
                THEN img.data[(j - y) * img.width + (i - x) + 1]
                ELSE image.data[k]]]

\* A get_screen_rectangle that takes a region of the rectangle's size at the
\* origin of the screen.
get_screen_rectangleAtOrigin(fb, rectangle) ==
    [width |-> rectangle.width, height |-> rectangle.height,
     data |-> [k \in 1 .. rectangle.width * rectangle.height |->
                 LET i == (k - 1) % rectangle.width
                     j == (k - 1) \div rectangle.width
                 IN  IF i < fb.screen.width /\ j < fb.screen.height
                     THEN fb.screen.data[j * fb.screen.width + i + 1]
                     ELSE <<0, 0, 0>>]]

\* Framebuffer.get_screen_rectangle: Image.crop(rectangle.corners), a new
\* image, black where the box lies outside the screen.
get_screen_rectangle(fb, rectangle) ==
    [width |-> rectangle.width, height |-> rectangle.height,
     data |-> [k \in 1 .. rectangle.width * rectangle.height |->
                 LET i == rectangle.x + ((k - 1) % rectangle.width)
                     j == rectangle.y + ((k - 1) \div rectangle.width)
                 IN  IF i < fb.screen.width /\ j < fb.screen.height
                     THEN fb.screen.data[j * fb.screen.width + i + 1]
                     ELSE <<0, 0, 0>>]]

\* An update_screen that calls the handler before it pastes.
update_screenHandlerFirst(fb, img, rectangle) ==
    LET Built(built) ==
            IF built.raised /= "" THEN [raised |-> built.raised, fb |-> fb, fired |-> <<>>]
            ELSE [raised |-> "",
                  fb |-> [fb EXCEPT !.screen = paste(fb.screen, built.value,
                                                     rectangle.x, rectangle.y)],
                  fired |-> Invoke(fb, "screen_update",
                                   [screen |-> fb.screen, rectangle |-> rectangle])]
        Decoded(decoded) ==
            IF decoded.raised /= "" THEN Built(decoded)
            ELSE Built(frombytes(3, <<rectangle.width, rectangle.height>>, decoded.value))
    IN  IF ~img.is_bytes THEN Built(Unpacked(img.value))
        ELSE Decoded(decode_pixel_data(fb.pix_fmt, img.value))

\* Framebuffer.update_screen on pixel bytes (is_bytes) or on an image: the
\* exception raised, the framebuffer afterwards, the invocations made.
update_screen(fb, img, rectangle) ==
    LET Handled(after) ==
            [raised |-> "", fb |-> after,
             fired |-> Invoke(after, "screen_update",
                              [screen |-> after.screen, rectangle |-> rectangle])]
        Built(built) ==
            IF built.raised /= "" THEN [raised |-> built.raised, fb |-> fb, fired |-> <<>>]
            ELSE Handled([fb EXCEPT !.screen = paste(fb.screen, built.value,
                                                     rectangle.x, rectangle.y)])
        Decoded(decoded) ==
            IF decoded.raised /= "" THEN Built(decoded)
            ELSE Built(frombytes(3, <<rectangle.width, rectangle.height>>, decoded.value))
    IN  IF ~img.is_bytes THEN Built(Unpacked(img.value))
        ELSE Decoded(decode_pixel_data(fb.pix_fmt, img.value))

\* Framebuffer.update_cursor: cursor pixels are 32-bit RGBA.
update_cursor(fb, img, size, center) ==
    LET Built(built) ==
            IF built.raised /= "" THEN [raised |-> built.raised, fb |-> fb, fired |-> <<>>]
            ELSE [raised |-> "",
                  fb |-> [fb EXCEPT !.cursor_img = Some(built.value),
                                    !.cursor_center = center],
                  fired |-> Invoke(fb, "update_cursor",
                                   [cursor_img |-> built.value, size |-> size,
                                    center |-> center])]
    IN  IF ~img.is_bytes THEN Built(Unpacked(img.value))
        ELSE Built(frombytes(4, size, img.value))

\* An update_cursor_position that writes the pixel into the image's buffer
\* without looking at the width: right of the screen it marks the next row.
update_cursor_positionUnchecked(fb, cursor_event) ==
    LET image == fb.cursor_path_img
        at == cursor_event.y * image.width + cursor_event.x + 1
    IN  [raised |-> "",
         fb |-> [fb EXCEPT !.cursor = Some(cursor_event),
                           !.cursor_path_img =
                               IF at > Len(image.data) THEN @
                               ELSE [image EXCEPT !.data[at] = <<255, 0, 0, 255>>]],
         fired |-> Invoke(fb, "update_cursor_position", cursor_event)]

\* Framebuffer.update_cursor_position: CursorStatus.from_pointer_event or
\* CursorStatus.update, then putpixel, which raises IndexError outside the
\* image and is then passed over, then the handler.
update_cursor_position(fb, cursor_event) ==
    LET x == cursor_event.x
        y == cursor_event.y
        image == fb.cursor_path_img
        put == IF x >= image.width \/ y >= image.height THEN UnpackRaise("IndexError")
               ELSE Unpacked([image EXCEPT !.data[y * image.width + x + 1] =
                                              <<255, 0, 0, 255>>])
    IN  [raised |-> "",
         fb |-> [fb EXCEPT !.cursor = Some(cursor_event),
                           !.cursor_path_img = IF put.raised = "IndexError" THEN @
                                               ELSE put.value],
         fired |-> Invoke(fb, "update_cursor_position", cursor_event)]

\* ------------------------------------------------------ framebuffer events
\* ctx.zlib_decompressor.decompress(data).  The inflate state is what it was
\* fed, its window (the bytes it produced) and whether it has met bad data,
\* after which it accepts nothing; of a compressed stream the model keeps that
\* a byte below 128 stands for itself and any other byte b for a copy of the
\* byte b - 127 places back in the window, which must exist.
decompress(z, data) ==
    LET RECURSIVE Inflate(_, _)
        Inflate(i, window) ==
            IF i > Len(data) THEN [raised |-> "", window |-> window]
            ELSE IF z.bad \/ (data[i] >= 128 /\ data[i] - 127 > Len(window))
            THEN [raised |-> "zlib.error", window |-> window]
            ELSE IF data[i] < 128 THEN Inflate(i + 1, Append(window, data[i]))
            ELSE Inflate(i + 1, Append(window, window[Len(window) + 128 - data[i]]))
        Inflated(r) ==
            [raised |-> r.raised,
             value |-> SubSeq(r.window, Len(z.window) + 1, Len(r.window)),
             z |-> [fed |-> z.fed \o data, window |-> r.window,
                    bad |-> r.raised /= ""]]
    IN  Inflated(Inflate(1, z.window))

\* class Encoding, the members FramebufferUpdateRectangle has a case for:
\* those whose decode_pixdata is written, those whose decode_pixdata raises
\* NotImplementedError, the cursor pseudo-encoding.
RAW == 0
COPYRECT == 1
ZLIB == 6
ZRLE == 16
PSEUDO_CURSOR_WITH_ALPHA == -314
Encoding ==
    {RAW, COPYRECT, ZLIB, ZRLE, PSEUDO_CURSOR_WITH_ALPHA} \cup {2, 4, 5, 7, 8, 21, 50, -260}

\* struct format "i" in network byte order, at index i.
I32(b, i) ==
    (((IF b[i] >= 128 THEN b[i] - 256 ELSE b[i]) * 256 + b[i + 1]) * 256 + b[i + 2]) * 256
    + b[i + 3]

\* get_frame_size_bytes with get_bpp: pix_bpp is the subfield's override, None
\* when it gives none.
get_frame_size_bytes(c, pix_bpp) ==
    IF IsNone(c.framebuffer) THEN UnpackRaise("ValueError")
    ELSE LET fb == Val(c.framebuffer)
             bpp == IF IsNone(pix_bpp) THEN fb.pix_fmt.bits_per_pixel ELSE Val(pix_bpp)
         IN  Unpacked((fb.width * fb.height * bpp) \div 8)

\* FramebufferUpdate.unpack on the bytes after the message type, in the
\* session c: a byte of padding, num_rects, the rectangles one after the
\* other; size is the number of bytes taken.
FramebufferUpdate_unpack(b, c) ==
    LET Field(value, next) == [raised |-> "", value |-> value, next |-> next]
        Short(exc) == [raised |-> exc, value |-> <<>>, next |-> 0]
        \* the fields of a FramebufferUpdatePixelData at index i
        PixelData(encoding, i, pix_bpp, pix_depth) ==
            IF encoding = RAW
            THEN LET Sized(n) ==
                         IF n.raised /= "" THEN Short(n.raised)
                         ELSE IF Len(b) < i + n.value - 1 THEN Short("UnpackError")
                         ELSE Field([pixdata |-> SubSeq(b, i, i + n.value - 1)],
                                    i + n.value)
                 IN  Sized(get_frame_size_bytes(c, pix_bpp))
            ELSE IF encoding = COPYRECT
            THEN IF Len(b) < i + 3 THEN Short("UnpackError")
                 ELSE Field([src_x |-> U16(b, i), src_y |-> U16(b, i + 2)], i + 4)
            ELSE IF encoding \in {ZLIB, ZRLE}
            THEN IF Len(b) < i + 3 \/ Len(b) < i + 3 + U32(b, i) THEN Short("UnpackError")
                 ELSE IF encoding = ZLIB
                 THEN Field([length |-> U32(b, i),
                             zlib_data |-> SubSeq(b, i + 4, i + 3 + U32(b, i))],
                            i + 4 + U32(b, i))
                 ELSE IF IsNone(c.framebuffer) /\ (IsNone(pix_bpp) \/ IsNone(pix_depth))
                 THEN Short("ValueError")
                 ELSE Field([length |-> U32(b, i),
                             zlib_data |-> SubSeq(b, i + 4, i + 3 + U32(b, i)),
                             pix_bpp |-> IF IsNone(pix_bpp)
                                         THEN Val(c.framebuffer).pix_fmt.bits_per_pixel
                                         ELSE Val(pix_bpp),
                             pix_depth |-> IF IsNone(pix_depth)
                                           THEN Val(c.framebuffer).pix_fmt.depth
                                           ELSE Val(pix_depth)],
                            i + 4 + U32(b, i))
            ELSE Field([stub |-> TRUE], i)
        \* FrameBufferUpdatePseudoCursorWithAlpha: an encoding, then the pixel
        \* data of that encoding at 32 bits per pixel
        Data(encoding, i) ==
            IF encoding /= PSEUDO_CURSOR_WITH_ALPHA THEN PixelData(encoding, i, None, None)
            ELSE IF Len(b) < i + 3 THEN Short("UnpackError")
            ELSE IF I32(b, i) \notin Encoding \ {PSEUDO_CURSOR_WITH_ALPHA}
            THEN Short("ValueError")
            ELSE LET Nested(pixels) ==
                         IF pixels.raised /= "" THEN pixels
                         ELSE Field([encoding |-> I32(b, i),
                                     cursor_pixels |-> pixels.value], pixels.next)
                 IN  Nested(PixelData(I32(b, i), i + 4, Some(32), Some(32)))
        RECURSIVE Rectangles(_, _, _)
        Rectangles(n, i, rectangles) ==
            IF n = 0
            THEN [raised |-> "",
                  value |-> [num_rects |-> Len(rectangles), rectangles |-> rectangles,
                             size |-> i - 1]]
            ELSE IF Len(b) < i + 11 THEN UnpackRaise("UnpackError")
            ELSE IF I32(b, i + 8) \notin Encoding THEN UnpackRaise("ValueError")
            ELSE LET Rest(data) ==
                         IF data.raised /= "" THEN UnpackRaise(data.raised)
                         ELSE Rectangles(n - 1, data.next,
                                  Append(rectangles,
                                         [rectangle |->
                                              [x |-> U16(b, i), y |-> U16(b, i + 2),
                                               width |-> U16(b, i + 4),
                                               height |-> U16(b, i + 6)],
                                          encoding |-> I32(b, i + 8),
                                          payload |-> data.next - (i + 12),
                                          data |-> data.value]))
                 IN  Rest(Data(I32(b, i + 8), i + 12))
    IN  IF Len(b) < 3 THEN UnpackRaise("UnpackError")
        ELSE Rectangles(U16(b, 2), 4, <<>>)

\* A decode_pixdata that inflates every rectangle with an inflate state of its
\* own, which takes the place of the session's.
decode_pixdataFreshInflate(c, rectangle, encoding, data) ==
    LET z == c.zlib_decompressor
        Result(exc, is_bytes, value, after) ==
            [raised |-> exc, is_bytes |-> is_bytes, value |-> value, z |-> after]
        Decoded(zrle, after) == Result(zrle.raised, TRUE, zrle.value, after)
        Inflated(inflated) ==
            IF encoding = ZLIB
            THEN Result(inflated.raised, TRUE, inflated.value, inflated.z)
            ELSE IF inflated.raised /= ""
            THEN Result(inflated.raised, TRUE, <<>>, inflated.z)
            ELSE Decoded(decode_zrle(inflated.value,
                                     <<rectangle.width, rectangle.height>>,
                                     [bits_per_pixel |-> data.pix_bpp,
                                      depth |-> data.pix_depth,
                                      big_endian |-> Val(c.framebuffer).pix_fmt.big_endian,
                                      true_colour |-> TRUE]),
                         inflated.z)
    IN  IF encoding = RAW THEN Result("", TRUE, data.pixdata, z)
        ELSE IF encoding = COPYRECT
        THEN IF IsNone(c.framebuffer) THEN Result("ValueError", TRUE, <<>>, z)
             ELSE Result("", FALSE,
                         get_screen_rectangle(Val(c.framebuffer),
                                              [rectangle EXCEPT !.x = data.src_x,
                                                                !.y = data.src_y]), z)
        ELSE IF encoding = ZRLE /\ IsNone(c.framebuffer)
        THEN Result("ValueError", TRUE, <<>>, z)
        ELSE IF encoding \in {ZLIB, ZRLE}
        THEN Inflated(decompress([fed |-> <<>>, window |-> <<>>, bad |-> FALSE],
                                 data.zlib_data))
        ELSE Result("NotImplementedError", TRUE, <<>>, z)

\* decode_pixdata of the pixel data of an encoding, in the session c: the
\* exception raised, the pixel bytes or the image returned, the inflate state
\* afterwards.
decode_pixdata(c, rectangle, encoding, data) ==
    LET z == c.zlib_decompressor
        Result(exc, is_bytes, value, after) ==
            [raised |-> exc, is_bytes |-> is_bytes, value |-> value, z |-> after]
        Decoded(zrle, after) == Result(zrle.raised, TRUE, zrle.value, after)
        Inflated(inflated) ==
            IF encoding = ZLIB
            THEN Result(inflated.raised, TRUE, inflated.value, inflated.z)
            ELSE IF inflated.raised /= ""
            THEN Result(inflated.raised, TRUE, <<>>, inflated.z)
            ELSE Decoded(decode_zrle(inflated.value,
                                     <<rectangle.width, rectangle.height>>,
                                     [bits_per_pixel |-> data.pix_bpp,
                                      depth |-> data.pix_depth,
                                      big_endian |-> Val(c.framebuffer).pix_fmt.big_endian,
                                      true_colour |-> TRUE]),
                         inflated.z)
    IN  IF encoding = RAW THEN Result("", TRUE, data.pixdata, z)
        ELSE IF encoding = COPYRECT
        THEN IF IsNone(c.framebuffer) THEN Result("ValueError", TRUE, <<>>, z)
             ELSE Result("", FALSE,
                         get_screen_rectangle(Val(c.framebuffer),
                                              [rectangle EXCEPT !.x = data.src_x,
                                                                !.y = data.src_y]), z)
        ELSE IF encoding = ZRLE /\ IsNone(c.framebuffer)
        THEN Result("ValueError", TRUE, <<>>, z)
        ELSE IF encoding \in {ZLIB, ZRLE} THEN Inflated(decompress(z, data.zlib_data))
        ELSE Result("NotImplementedError", TRUE, <<>>, z)

\* FramebufferUpdateRectangle.process in the session c: the exception raised,
\* the session afterwards, the invocations made.  A pixel-data rectangle goes
\* through ctx.update_screen(self.decode_pixdata(ctx, rectangle), rectangle),
\* the cursor pseudo-encoding through fb.update_cursor.
FramebufferUpdateRectangle_process(c, rect) ==
    LET cursor == rect.encoding = PSEUDO_CURSOR_WITH_ALPHA
        Updated(fed, updated) ==
            [raised |-> updated.raised, fired |-> updated.fired,
             ctx |-> [fed EXCEPT !.framebuffer = Some(updated.fb)]]
        Fed(pixels, fed) ==
            IF pixels.raised /= "" THEN [raised |-> pixels.raised, ctx |-> fed, fired |-> <<>>]
            ELSE IF IsNone(c.framebuffer)
            THEN [raised |-> "ValueError", ctx |-> fed, fired |-> <<>>]
            ELSE IF cursor
            THEN Updated(fed, update_cursor(Val(c.framebuffer), pixels,
                                  <<rect.rectangle.width, rect.rectangle.height>>,
                                  <<rect.rectangle.x, rect.rectangle.y>>))
            ELSE Updated(fed, update_screen(Val(c.framebuffer), pixels, rect.rectangle))
        Decoded(pixels) == Fed(pixels, [c EXCEPT !.zlib_decompressor = pixels.z])
    IN  IF cursor /\ IsNone(c.framebuffer)
        THEN [raised |-> "ValueError", ctx |-> c, fired |-> <<>>]
        ELSE IF cursor
        THEN Decoded(decode_pixdata(c, rect.rectangle, rect.data.encoding,
                                    rect.data.cursor_pixels))
        ELSE Decoded(decode_pixdata(c, rect.rectangle, rect.encoding, rect.data))

\* The most bytes the inflate state is fed in a session.
MaxFed == 5
\* The most bytes behind the sub-encoding byte of a tile, and the largest
\* width and height of a tile decoded alone.
MaxBody == 3
MaxTile == 2

\* A server or client event applied to the session: what it returns or
\* raises, and its effect.
Process(name, msg, r) ==
    /\ ret' = IF r.raised = "" THEN RetNothing ELSE RetRaise(r.raised)
    /\ Len(r.ctx.zlib_decompressor.fed) <= MaxFed
    /\ Apply(name, msg, r)

\* FramebufferUpdate.process on the event unpacked from msg:
\* for rect in self.rectangles: rect.process(ctx), up to the first rectangle
\* that raises.
FramebufferUpdate_process(msg) ==
    LET RECURSIVE Rectangles(_, _, _)
        Rectangles(rectangles, c, invoked) ==
            LET Rest(r) ==
                    IF r.raised /= ""
                    THEN [raised |-> r.raised, ctx |-> r.ctx,
                          fired |-> invoked \o r.fired]
                    ELSE Rectangles(Tail(rectangles), r.ctx, invoked \o r.fired)
            IN  IF rectangles = <<>> THEN [raised |-> "", ctx |-> c, fired |-> invoked]
                ELSE Rest(FramebufferUpdateRectangle_process(c, Head(rectangles)))
    IN  \E ev \in {FramebufferUpdate_unpack(msg, ctx)} :
            IF ev.raised /= "" THEN Refuse("FramebufferUpdate", msg, ev.raised)
            ELSE \E r \in {Rectangles(ev.value.rectangles, ctx, <<>>)} :
                     Process("FramebufferUpdate", msg, r)

\* PointerEvent.process on the event unpacked from msg: the button mask, x, y.
PointerEvent_process(msg) ==
    IF Len(msg) < 5 THEN Refuse("PointerEvent", msg, "UnpackError")
    ELSE IF IsNone(ctx.framebuffer) THEN Refuse("PointerEvent", msg, "ValueError")
    ELSE LET r == update_cursor_position(Val(ctx.framebuffer),
                      [button_mask |-> msg[1], x |-> U16(msg, 2), y |-> U16(msg, 4)])
         IN  Process("PointerEvent", msg,
                     [raised |-> "", fired |-> r.fired,
                      ctx |-> [ctx EXCEPT !.framebuffer = Some(r.fb)]])

\* SetPixelFormat.process on the event unpacked from msg: three bytes of
\* padding, the pixel format.
SetPixelFormat_process(msg) ==
    IF Len(msg) < 19 THEN Refuse("SetPixelFormat", msg, "UnpackError")
    ELSE IF IsNone(ctx.framebuffer) THEN Refuse("SetPixelFormat", msg, "ValueError")
    ELSE Process("SetPixelFormat", msg,
                 [raised |-> "", fired |-> <<>>,
                  ctx |-> [ctx EXCEPT !.framebuffer =
                              Some([Val(@) EXCEPT !.pix_fmt = PixelFormat_unpack(msg, 4)])]])

\* SetEncodings.process on the event unpacked from msg: one byte of padding,
\* the number of encodings, the encodings of four bytes each.  It prints.
SetEncodings_process(msg) ==
    IF Len(msg) < 3 \/ Len(msg) < 3 + 4 * U16(msg, 2)
    THEN Refuse("SetEncodings", msg, "UnpackError")
    ELSE Process("SetEncodings", msg, [raised |-> "", fired |-> <<>>, ctx |-> ctx])

\* FramebufferUpdateRequest.process on the event unpacked from msg: incremental,
\* x, y, width, height.  It prints.
FramebufferUpdateRequest_process(msg) ==
    IF Len(msg) < 9 THEN Refuse("FramebufferUpdateRequest", msg, "UnpackError")
    ELSE Process("FramebufferUpdateRequest", msg,
                 [raised |-> "", fired |-> <<>>, ctx |-> ctx])

\* A Bell that empties the clipboard.
Bell_processClearing ==
    Process("Bell", <<>>, [raised |-> "", fired |-> <<>>,
                           ctx |-> [ctx EXCEPT !.clipboard = None]])

\* Bell.process: the event has no field.  It prints.
Bell_process ==
    Process("Bell", <<>>, [raised |-> "", fired |-> <<>>, ctx |-> ctx])

\* ctx.framebuffer.on(event, handler)
FramebufferOn(event, handler) ==
    /\ ~IsNone(ctx.framebuffer)
    /\ ctx' = [ctx EXCEPT !.framebuffer = Some(on(Val(@), event, handler))]
    /\ call' = Call("on", CLIENT, 0, 0, 0)
    /\ UNCHANGED <<merger_vars, ret, delivered, locator_vars, rfb_status, hs, fired>>

\* --------------------------------------------------------------- inputs
Times == 0 .. MaxTime
\* The payloads of the packets of a stream.
Loads == {<<1>>, <<2, 3>>}
Packet == [time : Times, load : Loads]

\* Timestamps in capture order never go back.
NonDecreasing(pkts) == \A i \in 1 .. Len(pkts) - 1 : pkts[i].time <= pkts[i + 1].time

RECURSIVE SeqsUpTo(_, _)
SeqsUpTo(S, n) ==
    IF n = 0 THEN {<<>>}
    ELSE LET shorter == SeqsUpTo(S, n - 1)
         IN  shorter \cup {Append(q, x) : q \in {t \in shorter : Len(t) = n - 1}, x \in S}

\* get_streams has not run: no capture, its locals unset.
LocatorIdle ==
    /\ pcap = <<>>
    /\ gs = [pc |-> "idle", i |-> 0, cli_packets |-> <<>>, srv_packets |-> <<>>]

\* A merger has been constructed on two packet lists and not used yet.
MergerBuilt(cli, srv) ==
    LET m == ClientServerPacketStream(cli, srv)
    IN  /\ packets = m.packets
        /\ streams = m.streams
        /\ readers = m.readers
        /\ packet_origin = m.packet_origin
        /\ call = NoCall
        /\ ret = RetNothing
        /\ delivered = <<>>
        /\ LocatorIdle

\* The state once a merger has been constructed on two packet lists.
MergerInit(cli, srv) == MergerBuilt(cli, srv) /\ SessionIdle

\* The merger built on any two packet lists, then iterated with __next__ only.
InitMerge ==
    \E cli \in SeqsUpTo(Packet, MaxPkts), srv \in SeqsUpTo(Packet, MaxPkts) :
        MergerInit(cli, srv)

NextMerge == MergedNext

SpecMerge == InitMerge /\ [][NextMerge]_vars

\* A directional stream on any packet list, consumed only through its byte
\* reader (the server side of the pair stays empty and untouched).
ReaderPacket == [time : {0}, load : Loads \cup {<<4, 5, 6>>}]
Sizes == 0 .. MaxSize
Offsets == -MaxSeek .. MaxSeek
Whences == {SEEK_SET, SEEK_CUR, SEEK_END, 3}

InitReader ==
    \E cli \in SeqsUpTo(ReaderPacket, MaxPkts) : MergerInit(cli, <<>>)

NextReader ==
    \/ \E size \in Sizes : Read(CLIENT, Some(size))
    \/ \E size \in {-1} : Read(CLIENT, Some(size))
    \/ Read(CLIENT, None)
    \/ \E offset \in Offsets, whence \in Whences : Seek(CLIENT, offset, whence)
    \/ \E size \in Sizes : Peek(CLIENT, size)

SpecReader == InitReader /\ [][NextReader]_vars

\* The merger built on any two packet lists and used every way its callers
\* use it: iterated, taken from by direction (as the handshake does), and
\* read through the two byte readers (as the event parsers do).
\* The packets of a capture are in capture order; a client payload is one byte
\* and a server payload two, so that a read can stop inside a packet.
MaxTotal == 3
StreamPacket(d) == [time : Times, load : IF d = CLIENT THEN {<<1>>} ELSE {<<2, 3>>}]

InitStreams ==
    \E cli \in SeqsUpTo(StreamPacket(CLIENT), MaxPkts),
       srv \in SeqsUpTo(StreamPacket(SERVER), MaxPkts) :
        /\ Len(cli) + Len(srv) <= MaxTotal
        /\ NonDecreasing(cli) /\ NonDecreasing(srv)
        /\ MergerInit(cli, srv)

NextStreams ==
    \/ MergedNext
    \/ next_client
    \/ next_server
    \/ \E d \in PacketOrigin : Read(d, Some(1))
    \/ \E d \in PacketOrigin : Peek(d, 1)

SpecStreams == InitStreams /\ [][NextStreams]_vars

\* Captures.  A flow is one direction of a conversation: the packets of one
\* session key of pcap.sessions().  Hosts A and C are clients of host B.
MaxFlows == 3
FlowKeys == {[proto |-> "TCP", src |-> "A", dst |-> "B"],
             [proto |-> "TCP", src |-> "B", dst |-> "A"],
             [proto |-> "TCP", src |-> "C", dst |-> "B"],
             [proto |-> "UDP", src |-> "A", dst |-> "B"]}
\* First payloads that miss the banner test by one condition each: 13 bytes,
\* "GET / HTTP/\n", and a banner ending in a space.
NearBanners == {<<82, 70, 66, 32, 48, 48, 51, 46, 48, 48, 56, 13, 10>>,
                <<71, 69, 84, 32, 47, 32, 72, 84, 84, 80, 47, 10>>,
                <<82, 70, 66, 32, 48, 48, 51, 46, 48, 48, 56, 32>>}
FlowPacket(k, t, load) ==
    [time |-> t, load |-> load, proto |-> k.proto, src |-> k.src, dst |-> k.dst]
\* A flow opens with a packet without payload (the SYN or its ACK); its first
\* payload, if it has one, is a banner at any time or a near-banner.
FlowsOf(k) ==
    {<<FlowPacket(k, 0, <<>>)>>}
    \cup {<<FlowPacket(k, 0, <<>>), FlowPacket(k, t, Banner)>> : t \in Times}
    \cup {<<FlowPacket(k, 0, <<>>), FlowPacket(k, 0, load)>> : load \in NearBanners}
Flows == UNION {FlowsOf(k) : k \in FlowKeys}
KeyOf(flow) == [proto |-> flow[1].proto, src |-> flow[1].src, dst |-> flow[1].dst]
\* The session keys of a capture are distinct.
DistinctKeys(c) == \A i, j \in 1 .. Len(c) : i /= j => KeyOf(c[i]) /= KeyOf(c[j])

\* get_streams called on any capture; no merger exists until it returns.
InitGetStreams ==
    /\ \E n \in 0 .. MaxFlows : \E c \in [1 .. n -> Flows] :
           /\ DistinctKeys(c)
           /\ pcap = c
    /\ gs = [pc |-> "scan", i |-> 1, cli_packets |-> <<>>, srv_packets |-> <<>>]
    /\ LET m == ClientServerPacketStream(<<>>, <<>>)
       IN  /\ packets = m.packets
           /\ streams = m.streams
           /\ readers = m.readers
           /\ packet_origin = m.packet_origin
    /\ call = NoCall
    /\ ret = RetNothing
    /\ delivered = <<>>
    /\ SessionIdle

NextGetStreams ==
    \/ GetStreamsScan
    \/ GetStreamsNotFound
    \/ GetStreamsReturn

SpecGetStreams == InitGetStreams /\ [][NextGetStreams]_vars

\* Conversations: the client's and the server's packets.  A server and a
\* client each announce a version out of 3.3, 3.7 and 3.8; the security
\* negotiation has the form of the lower of the two; the security type is NONE,
\* VNC_AUTHENTICATION, TIGHT, or 3, which is no security type; the result is
\* OK, FAILED or 2; the name is "Hi" or, in UTF-8, "e" with an acute accent.
\* The capture may end before ServerInit (cut), or go on after it with a
\* framebuffer update request and a bell (extra).  The packets are captured
\* all at once, or the two sides in lockstep, or every client packet before
\* the first server packet.
Conversations ==
    LET digits3(n) == <<48 + (n \div 100), 48 + ((n \div 10) % 10), 48 + (n % 10)>>
        banner(v)  == <<82, 70, 66, 32>> \o digits3(v[1]) \o <<46>> \o digits3(v[2]) \o <<10>>
        low(sv, cv) == sv = <<3, 3>> \/ cv = <<3, 3>>
        be16(n) == <<n \div 256, n % 256>>
        be32(n) == <<0, 0, n \div 256, n % 256>>
        \* 32 bpp, depth 24, little endian, true colour, maxes 255, shifts 16, 8, 0
        pixfmt == <<32, 24, 0, 1, 0, 255, 0, 255, 0, 255, 16, 8, 0, 0, 0, 0>>
        challenge == <<1, 2, 3, 4, 5, 6, 7, 8, 9, 10, 11, 12, 13, 14, 15, 16>>
        srv_loads(sv, cv, sec, res, size, name, cut, extra) ==
            <<banner(sv)>>
            \o (IF low(sv, cv) THEN <<be32(sec)>> ELSE <<<<3, 1, 2, 16>>>>)
            \o (IF sec = VNC_AUTHENTICATION THEN <<challenge>> ELSE <<>>)
            \o <<be32(res)>>
            \o (IF cut THEN <<>>
                ELSE <<be16(size[1]) \o be16(size[2]) \o pixfmt \o be32(Len(name)) \o name>>)
            \o (IF extra /\ ~cut THEN <<<<2>>>> ELSE <<>>)
        cli_loads(sv, cv, sec, shared, extra) ==
            <<banner(cv)>>
            \o (IF low(sv, cv) THEN <<>> ELSE <<<<sec>>>>)
            \o (IF sec = VNC_AUTHENTICATION THEN <<challenge>> ELSE <<>>)
            \o <<<<shared>>>>
            \o (IF extra THEN <<<<3, 0, 0, 0, 0, 0, 0, 1, 0, 1>>>> ELSE <<>>)
        time_of(timing, d, i) ==
            IF timing = "same" THEN 0
            ELSE IF timing = "lockstep" THEN (IF d = SERVER THEN 2 * i - 1 ELSE 2 * i)
            ELSE (IF d = SERVER THEN 100 + i ELSE i)
        pkts(d, loads, timing) ==
            [i \in 1 .. Len(loads) |->
                [time |-> time_of(timing, d, i), load |-> loads[i],
                 src |-> IF d = SERVER THEN "B" ELSE "A",
                 sport |-> IF d = SERVER THEN 5900 ELSE 40000]]
        versions == {<<3, 3>>, <<3, 7>>, <<3, 8>>}
    IN  {[cli |-> pkts(CLIENT, cli_loads(sv, cv, sec, shared, extra), timing),
          srv |-> pkts(SERVER, srv_loads(sv, cv, sec, res, size, name, cut, extra), timing)] :
            sv \in versions, cv \in versions, sec \in {NONE, VNC_AUTHENTICATION, TIGHT, 3},
            res \in {OK, FAILED, 2}, shared \in {0, 1}, size \in {<<2, 3>>, <<256, 1>>},
            name \in {<<72, 105>>, <<195, 169>>}, cut \in BOOLEAN, extra \in BOOLEAN,
            timing \in {"same", "lockstep", "client_first"}}

\* process_pcap after get_streams: a fresh RFBContext, process_handshake
\* about to run on the merger.
InitHandshake ==
    \E c \in Conversations :
        /\ MergerBuilt(c.cli, c.srv)
        /\ rfb_status = RFBContextInit
        /\ hs = [HandshakeIdle EXCEPT !.pc = "srv0"]
        /\ ctx = EventContextInit
        /\ fired = <<>>

NextHandshake ==
    \/ HandshakeSrv0
    \/ HandshakeCli0
    \/ HandshakeSrvSecurityTypes
    \/ HandshakeCliSecuritySelected
    \/ HandshakeSrvVncChallenge
    \/ HandshakeCliVncChallenge
    \/ HandshakeSrvSecurityResult
    \/ HandshakeCliInit
    \/ HandshakeSrvInit
    \/ process_events

SpecHandshake == InitHandshake /\ [][NextHandshake]_vars

\* Events applied to a fresh session context, on which handlers may be
\* registered at any time.
\* Key "A" and key Return, down and up, and a message cut short.
KeyMessages == {<<1, 0, 0, 0, 0, 0, 65>>, <<0, 0, 0, 0, 0, 0, 65>>,
                <<1, 0, 0, 0, 0, 255, 13>>, <<0, 0, 0, 0, 0, 255, 13>>, <<1, 0>>}
\* "hello", the empty text, "e" with an acute accent in Latin-1, and a
\* message cut short.
CutTextMessages == {<<0, 0, 0, 0, 0, 0, 5, 104, 101, 108, 108, 111>>,
                    <<0, 0, 0, 0, 0, 0, 0>>,
                    <<0, 0, 0, 0, 0, 0, 1, 233>>, <<1, 0>>}

InitEvents ==
    /\ MergerBuilt(<<>>, <<>>)
    /\ rfb_status = RFBContextInit
    /\ hs = HandshakeIdle
    /\ ctx = EventContextInit
    /\ fired = <<>>

NextEvents ==
    \/ \E event \in EventNames, handler \in {"h1"} : On(event, handler)
    \/ \E msg \in KeyMessages : KeyEvent_process(msg)
    \/ \E msg \in CutTextMessages : ClientCutText_process(msg)
    \/ \E msg \in CutTextMessages : ServerCutText_process(msg)

SpecEvents == InitEvents /\ [][NextEvents]_vars

\* Events applied to a session whose framebuffer is three pixels wide and two
\* high, with one byte per pixel (three bits of red, three of green, two of
\* blue), and to a session that has no framebuffer yet.
\* SetPixelFormat with that format, with 32 bits per pixel and one byte per
\* channel, and a message cut short.
PixelFormatMessages ==
    {<<0, 0, 0, 8, 8, 0, 1, 0, 7, 0, 7, 0, 3, 0, 3, 6, 0, 0, 0>>,
     <<0, 0, 0, 32, 24, 0, 1, 0, 255, 0, 255, 0, 255, 16, 8, 0, 0, 0, 0>>,
     <<0, 0, 0, 8>>}
\* The pointer at (1, 0) with a button down, at (2, 1), right of the screen,
\* below the screen, and a message cut short.
PointerMessages ==
    {<<1, 0, 1, 0, 0>>, <<0, 0, 2, 0, 1>>, <<0, 0, 3, 0, 0>>, <<1, 0, 0, 0, 2>>, <<1, 0>>}
\* FramebufferUpdate messages, each the bytes of the stream after the message
\* type:
\*   raw     the whole screen, six different pixels
\*   small   one pixel at (1, 1), five Bell messages behind it on the stream
\*   alone   one pixel at (1, 1), the stream ending with it
\*   raw32   one pixel at (0, 0) in 24 bytes
\*   copy    the two left columns copied one pixel to the right
\*   off     a source and a destination that reach past the screen
\*   two     two compressed pixels, the second a copy of the first
\*   again   one compressed pixel, a copy of the last byte inflated
\*   zrle    a ZRLE tile of one colour, two pixels wide at (0, 1)
\*   cursor  a cursor of one pixel, its pixel data compressed
\*   mixed   the whole screen, then the copy to the right
\*   stub    the whole screen, then an RRE rectangle
\*   skip    an RRE rectangle, then the whole screen
\*   short   a message cut short
\*   bad     a rectangle of an encoding that does not exist
FramebufferUpdates ==
    LET H(n) == <<n \div 256, n % 256>>
        I(n) == <<0, 0>> \o H(n)
        Rect(x, y, w, h, encoding, payload) ==
            H(x) \o H(y) \o H(w) \o H(h) \o encoding \o payload
        Zlib(data) == I(Len(data)) \o data
        RECURSIVE Join(_)
        Join(rects) == IF rects = <<>> THEN <<>> ELSE Head(rects) \o Join(Tail(rects))
        Update(rects) == <<0>> \o H(Len(rects)) \o Join(rects)
        whole == Rect(0, 0, 3, 2, I(RAW), <<1, 2, 3, 4, 5, 6>>)
        right == Rect(1, 0, 2, 2, I(COPYRECT), H(0) \o H(0))
        pixel == Rect(1, 1, 1, 1, I(RAW), <<7>>)
    IN  [raw |-> Update(<<whole>>),
         small |-> Update(<<pixel>>) \o <<2, 2, 2, 2, 2>>,
         alone |-> Update(<<pixel>>),
         raw32 |-> Update(<<Rect(0, 0, 1, 1, I(RAW),
                                 <<3, 2, 1, 0, 3, 2, 1, 0, 3, 2, 1, 0,
                                   3, 2, 1, 0, 3, 2, 1, 0, 3, 2, 1, 0>>)>>),
         copy |-> Update(<<right>>),
         off |-> Update(<<Rect(2, 1, 2, 2, I(COPYRECT), H(2) \o H(0))>>),
         two |-> Update(<<Rect(0, 0, 1, 1, I(ZLIB), Zlib(<<56>>)),
                          Rect(1, 0, 1, 1, I(ZLIB), Zlib(<<128>>))>>),
         again |-> Update(<<Rect(2, 1, 1, 1, I(ZLIB), Zlib(<<128>>))>>),
         zrle |-> Update(<<Rect(0, 1, 2, 1, I(ZRLE), Zlib(<<1, 7>>))>>),
         cursor |-> Update(<<Rect(0, 0, 1, 1, <<255, 255, 254, 198>>,
                                  I(ZLIB) \o Zlib(<<9, 128, 128, 128>>))>>),
         mixed |-> Update(<<whole, right>>),
         stub |-> Update(<<whole, Rect(0, 0, 1, 1, I(2), <<>>)>>),
         skip |-> Update(<<Rect(0, 0, 1, 1, I(2), <<>>), whole>>),
         short |-> <<0, 0>>,
         bad |-> Update(<<Rect(0, 0, 1, 1, I(3), <<>>)>>)]

InitFramebuffer ==
    /\ MergerBuilt(<<>>, <<>>)
    /\ rfb_status = RFBContextInit
    /\ hs = HandshakeIdle
    /\ \E framebuffer \in
           {None, Some(Framebuffer(3, 2, PixelFormat_unpack(
                           <<8, 8, 0, 1, 0, 7, 0, 7, 0, 3, 0, 3, 6, 0, 0, 0>>, 1)))} :
           ctx = [EventContextInit EXCEPT !.framebuffer = framebuffer]
    /\ fired = <<>>

\* The pointer and the handler of its moves.
NextPointer ==
    \/ FramebufferOn("update_cursor_position", "h1")
    \/ \E msg \in PointerMessages : PointerEvent_process(msg)

SpecPointer == InitFramebuffer /\ [][NextPointer]_vars

\* The pointer, the pixel format, the screen and the cursor, no handler
\* registered.
NextFramebuffer ==
    \/ \E msg \in PointerMessages : PointerEvent_process(msg)
    \/ \E msg \in PixelFormatMessages : SetPixelFormat_process(msg)
    \/ \E k \in {"raw", "raw32", "copy", "cursor"} :
           FramebufferUpdate_process(FramebufferUpdates[k])

SpecFramebuffer == InitFramebuffer /\ [][NextFramebuffer]_vars

\* Framebuffer updates and the handler of the screen's updates.
NextScreen ==
    \/ FramebufferOn("screen_update", "h1")
    \/ \E k \in {"mixed", "two", "copy", "off", "stub", "skip"} :
           FramebufferUpdate_process(FramebufferUpdates[k])

SpecScreen == InitFramebuffer /\ [][NextScreen]_vars

\* The events that only print, among events that change the typed text, the
\* clipboard, the pixel format, the screen, the cursor, its path and the
\* inflate state, with handlers registered.  SetEncodings of one encoding and
\* cut short; FramebufferUpdateRequest of the whole screen and cut short.
NextQuiet ==
    \/ On("clipboard", "h1")
    \/ FramebufferOn("update_cursor_position", "h1")
    \/ KeyEvent_process(<<1, 0, 0, 0, 0, 0, 65>>)
    \/ ClientCutText_process(<<0, 0, 0, 0, 0, 0, 1, 233>>)
    \/ PointerEvent_process(<<1, 0, 1, 0, 0>>)
    \/ \E k \in {"raw", "cursor"} : FramebufferUpdate_process(FramebufferUpdates[k])
    \/ \E msg \in PixelFormatMessages : SetPixelFormat_process(msg)
    \/ \E msg \in {<<0, 0, 1, 0, 0, 0, 16>>, <<0, 0, 2, 0, 0, 0, 0>>} :
           SetEncodings_process(msg)
    \/ \E msg \in {<<1, 0, 0, 0, 0, 0, 3, 0, 2>>, <<0, 0, 0>>} :
           FramebufferUpdateRequest_process(msg)
    \/ Bell_process

SpecQuiet == InitFramebuffer /\ [][NextQuiet]_vars

\* Framebuffer updates in every encoding, in one pixel format, no handler
\* registered.
NextEncodings ==
    \E k \in DOMAIN FramebufferUpdates \ {"raw32"} :
        FramebufferUpdate_process(FramebufferUpdates[k])

SpecEncodings == InitFramebuffer /\ [][NextEncodings]_vars

\* The pixel decoders, each applied once to one input.  The inputs:
\*   decode_zrle_tile   a sub-encoding byte of every kind and up to MaxBody
\*                      bytes behind it, every sub-encoding byte and up to
\*                      one byte behind it, no byte at all, or plain RLE
\*                      runs of pixels of three bytes; tiles of up to
\*                      MaxTile by MaxTile pixels; compact pixels of one and
\*                      of three bytes
\*   decode_zrle        rectangles of one tile and of several, tiles of one
\*                      colour, raw pixels, or no data
\*   decode_pixel_data  pixels whole and cut short, in formats of one, two and
\*                      four bytes per pixel, of either byte order, with a
\*                      channel maximum that is not a power of two less one,
\*                      with a channel maximum of 0, and with a palette
DecodeInputs ==
    LET Format(b) == PixelFormat_unpack(b \o <<0, 0, 0>>, 1)
        bgr233 == Format(<<8, 8, 0, 1, 0, 7, 0, 7, 0, 3, 0, 3, 6>>)
        rgb888 == Format(<<32, 24, 0, 1, 0, 255, 0, 255, 0, 255, 16, 8, 0>>)
        others == {Format(<<32, 24, 1, 1, 0, 255, 0, 255, 0, 255, 16, 8, 0>>),
                   Format(<<16, 16, 1, 1, 0, 31, 0, 63, 0, 31, 11, 5, 0>>),
                   Format(<<8, 8, 0, 1, 0, 5, 0, 3, 0, 1, 0, 3, 5>>),
                   Format(<<8, 8, 0, 1, 0, 0, 0, 7, 0, 3, 0, 3, 6>>),
                   Format(<<8, 8, 0, 0, 0, 7, 0, 7, 0, 3, 0, 3, 6>>)}
        bodies == UNION {[1 .. n -> {0, 2, 129, 255}] : n \in 0 .. MaxBody}
        subencodings == {0, 1, 2, 3, 4, 5, 16, 17, 127, 128, 129, 130, 131, 255}
    IN  [decode_zrle_tile |->
             [data : {<<>>} \cup {<<b>> \o body : b \in subencodings, body \in bodies}
                         \cup {<<b>> \o body : b \in 0 .. 255, body \in {<<>>, <<2>>}}
                         \cup {<<128, 2, 129, 255, 0>>,
                               <<128, 2, 129, 255, 0, 0, 2, 129, 2, 7>>},
              size : (1 .. MaxTile) \X (1 .. MaxTile),
              pix_fmt : {bgr233, rgb888}],
         decode_zrle |->
             [data : {<<>>, <<1, 7>>, <<1, 7, 1, 9, 1, 2, 1, 3>>, <<0, 1, 2, 3, 4, 5, 6>>},
              size : {<<1, 1>>, <<3, 2>>, <<64, 64>>, <<65, 1>>, <<1, 65>>, <<65, 65>>,
                      <<129, 1>>},
              pix_fmt : {bgr233, rgb888}],
         decode_pixel_data |->
             [data : {body \o last : body \in bodies, last \in {<<>>, <<129>>}},
              pix_fmt : {bgr233, rgb888} \cup others]]

InitDecode ==
    /\ \E name \in DOMAIN DecodeInputs :
           \E input \in DecodeInputs[name] : call = Call(name, SERVER, input, 0, 0)
    /\ ret = RetNothing
    /\ LET m == ClientServerPacketStream(<<>>, <<>>)
       IN  /\ packets = m.packets
           /\ streams = m.streams
           /\ readers = m.readers
           /\ packet_origin = m.packet_origin
    /\ delivered = <<>>
    /\ LocatorIdle
    /\ SessionIdle

\* A decoder returns or raises: ret holds the exception raised, the bytes
\* returned, the offset reached in the data and, for decode_zrle, the tiles it
\* handed to decode_zrle_tile.
Returns(r, data, pos, tiles) ==
    /\ ret = RetNothing
    /\ ret' = [kind |-> IF r.raised = "" THEN "bytes" ELSE r.raised, pkt |-> None,
               data |-> data, pos |-> pos, tiles |-> tiles]
    /\ UNCHANGED <<merger_vars, call, delivered, locator_vars, session_vars>>

\* decode_zrle_tile(data, size, pix_fmt) on bytes: a stream over them, at 0.
Decode_zrle_tile ==
    /\ call.name = "decode_zrle_tile"
    /\ \E r \in {decode_zrle_tile(call.size.data, 0, call.size.size, call.size.pix_fmt)} :
           Returns(r, r.pixdata, r.pos, <<>>)

\* decode_zrle(data, size, pix_fmt)
Decode_zrle ==
    /\ call.name = "decode_zrle"
    /\ \E r \in {decode_zrle(call.size.data, call.size.size, call.size.pix_fmt)} :
           Returns(r, r.value, r.pos, r.tiles)

\* Framebuffer.decode_pixel_data(pix_data) on a framebuffer of the format
Decode_pixel_data ==
    /\ call.name = "decode_pixel_data"
    /\ \E r \in {decode_pixel_data(call.size.pix_fmt, call.size.data)} :
           Returns(r, r.value, 0, <<>>)

NextDecode ==
    \/ Decode_zrle_tile
    \/ Decode_zrle
    \/ Decode_pixel_data

SpecDecode == InitDecode /\ [][NextDecode]_vars

\* The decoders of encodings.py followed through their loops, one iteration a
\* step.  While a decoder runs, ret holds its local variables: the loop it is
\* in, the stream's offset (pos), pixdata (data), the palette, and for
\* decode_zrle the tiles decoded and tile_x, tile_y, tile_w (tile).
Running(loop, pos, pixdata, palette, tile) ==
    [kind |-> "running", pkt |-> None, data |-> pixdata, pos |-> pos, tiles |-> <<>>,
     loop |-> loop, palette |-> palette, tile |-> tile]

\* What a decoder leaves when it returns or raises.
Finished(raised, data, pos, tiles) ==
    [kind |-> IF raised = "" THEN "bytes" ELSE raised, pkt |-> None,
     data |-> data, pos |-> pos, tiles |-> tiles]

\* A step of a decoder: only its own variables change.
Step(state) ==
    /\ ret' = state
    /\ UNCHANGED <<merger_vars, call, delivered, locator_vars, session_vars>>

\* decode_zrle_tile up to its loops: the sub-encoding byte is read and, for
\* palette RLE, the palette.  The sub-encodings without a while loop are
\* decoded in this step.
Decode_zrle_tileBegin ==
    /\ call.name = "decode_zrle_tile"
    /\ ret = RetNothing
    /\ LET d == call.size.data
           cps == cpixel_size(call.size.pix_fmt)
           subencoding == IF d = <<>> THEN -1 ELSE d[1]
           read_cpixel(q) ==
               decode_cpixel(call.size.pix_fmt,
                             SubSeq(d, Min(q, Len(d)) + 1, Min(q + cps, Len(d))))
       IN  IF subencoding = 128 THEN Step(Running("plain", 1, <<>>, <<>>, <<>>))
           ELSE IF subencoding >= 130
           THEN Step(Running("palette", 1 + (subencoding - 128) * cps, <<>>,
                             [k \in 1 .. subencoding - 128 |->
                                  read_cpixel(1 + (k - 1) * cps)], <<>>))
           ELSE \E r \in {decode_zrle_tile(d, 0, call.size.size, call.size.pix_fmt)} :
                    Step(Finished(r.raised, r.pixdata, r.pos, <<>>))

\* A plain RLE loop that goes on to its next pass when the length of a run is
\* cut short (continue for break).
PlainRleIterationContinuing ==
    /\ ret.kind = "running" /\ ret.loop = "plain"
    /\ LET d == call.size.data
           cps == cpixel_size(call.size.pix_fmt)
           total_size == call.size.size[1] * call.size.size[2] * cps
           pix == decode_cpixel(call.size.pix_fmt,
                                SubSeq(d, Min(ret.pos, Len(d)) + 1,
                                       Min(ret.pos + cps, Len(d))))
           Return(pos) ==
               Step(Finished("", tile_pixdata(ret.data, total_size), Min(pos, Len(d)), <<>>))
       IN  IF Len(ret.data) >= total_size THEN Return(ret.pos)
           ELSE \E rle \in {get_rle_length(d, Min(ret.pos + cps, Len(d)), 1)} :
                    IF rle.raised /= "" THEN Step(ret)
                    ELSE Step([ret EXCEPT
                                  !.pos = rle.pos,
                                  !.data = @ \o [k \in 1 .. Len(pix) * rle.value |->
                                                     pix[((k - 1) % Len(pix)) + 1]]])

\* decode_zrle_tile, plain RLE: the test of while len(pixdata) < total_size and
\* one pass through its body; behind the loop, the tile is cut or filled up
\* and returned.
PlainRleIteration ==
    /\ ret.kind = "running" /\ ret.loop = "plain"
    /\ LET d == call.size.data
           cps == cpixel_size(call.size.pix_fmt)
           total_size == call.size.size[1] * call.size.size[2] * cps
           pix == decode_cpixel(call.size.pix_fmt,
                                SubSeq(d, Min(ret.pos, Len(d)) + 1,
                                       Min(ret.pos + cps, Len(d))))
           Return(pos) ==
               Step(Finished("", tile_pixdata(ret.data, total_size), Min(pos, Len(d)), <<>>))
       IN  IF Len(ret.data) >= total_size THEN Return(ret.pos)
           ELSE \E rle \in {get_rle_length(d, Min(ret.pos + cps, Len(d)), 1)} :
                    IF rle.raised /= "" THEN Return(rle.pos)
                    ELSE Step([ret EXCEPT
                                  !.pos = rle.pos,
                                  !.data = @ \o [k \in 1 .. Len(pix) * rle.value |->
                                                     pix[((k - 1) % Len(pix)) + 1]]])

\* decode_zrle_tile, palette RLE: the test of while len(pixdata) < total_size
\* and one pass through its body; behind the loop, the tile is cut or filled
\* up and returned.
PaletteRleIteration ==
    /\ ret.kind = "running" /\ ret.loop = "palette"
    /\ LET d == call.size.data
           total_size == call.size.size[1] * call.size.size[2]
                         * cpixel_size(call.size.pix_fmt)
           palette_idx == IF ret.pos < Len(d) THEN d[ret.pos + 1] ELSE -1
           Return(pos) ==
               Step(Finished("", tile_pixdata(ret.data, total_size), Min(pos, Len(d)), <<>>))
           IndexError(pos) == Step(Finished("IndexError", <<>>, Min(pos, Len(d)), <<>>))
           Run(pix, n) == [k \in 1 .. Len(pix) * n |-> pix[((k - 1) % Len(pix)) + 1]]
       IN  IF Len(ret.data) >= total_size \/ palette_idx < 0 THEN Return(ret.pos)
           ELSE IF palette_idx < 128
           THEN IF palette_idx >= Len(ret.palette) THEN IndexError(ret.pos + 1)
                ELSE Step([ret EXCEPT !.pos = @ + 1,
                                      !.data = @ \o ret.palette[palette_idx + 1]])
           ELSE \E rle \in {get_rle_length(d, ret.pos + 1, 1)} :
                    IF rle.raised /= "" THEN Return(rle.pos)
                    ELSE IF palette_idx - 128 >= Len(ret.palette) THEN IndexError(rle.pos)
                    ELSE Step([ret EXCEPT
                                  !.pos = rle.pos,
                                  !.data = @ \o Run(ret.palette[palette_idx - 127],
                                                    rle.value)])

\* decode_zrle up to its loops: tile_x = tile_y = 0, the stream at 0 and
\* pixdata a bytearray of width * height * bytes_per_pixel zeros.
Decode_zrleBegin ==
    /\ call.name = "decode_zrle"
    /\ ret = RetNothing
    /\ Step(Running("outer", 0,
                    [k \in 1 .. call.size.size[1] * call.size.size[2]
                                * bytes_per_pixel(call.size.pix_fmt) |-> 0],
                    <<>>, [x |-> 0, y |-> 0, w |-> 0]))

\* decode_zrle: the test of while tile_y < height and the assignment of
\* tile_w before the inner loop; behind the loop, bytes(pixdata) is returned.
ZrleOuterIteration ==
    /\ ret.kind = "running" /\ ret.loop = "outer"
    /\ IF ret.tile.y < call.size.size[2]
       THEN Step([ret EXCEPT !.loop = "inner",
                             !.tile.w = Min(64, call.size.size[1] - ret.tile.x)])
       ELSE Step(Finished("", ret.data, ret.pos, ret.tiles))

\* decode_zrle: the test of while tile_x < width and one pass through its
\* body, which decodes a tile and copies its rows; behind the loop,
\* tile_y += 64.
ZrleInnerIteration ==
    /\ ret.kind = "running" /\ ret.loop = "inner"
    /\ LET width == call.size.size[1]
           tile == [x |-> ret.tile.x, y |-> ret.tile.y, w |-> ret.tile.w,
                    h |-> Min(64, call.size.size[2] - ret.tile.y)]
       IN  IF ret.tile.x >= width
           THEN Step([ret EXCEPT !.loop = "outer", !.tile.y = @ + 64])
           ELSE \E t \in {decode_zrle_tile(call.size.data, ret.pos, <<tile.w, tile.h>>,
                                           call.size.pix_fmt)} :
                    IF t.raised /= ""
                    THEN Step(Finished(t.raised, <<>>, t.pos, Append(ret.tiles, tile)))
                    ELSE Step([ret EXCEPT
                                  !.pos = t.pos,
                                  !.tiles = Append(@, tile),
                                  !.tile.x = @ + 64,
                                  !.data = copy_rows(0, tile.h, tile, t.pixdata, @, width,
                                                     bytes_per_pixel(call.size.pix_fmt))])

InitLoops == InitDecode /\ call.name \in {"decode_zrle_tile", "decode_zrle"}

NextLoops ==
    \/ Decode_zrle_tileBegin
    \/ PlainRleIteration
    \/ PaletteRleIteration
    \/ Decode_zrleBegin
    \/ ZrleOuterIteration
    \/ ZrleInnerIteration

SpecLoops == InitLoops /\ [][NextLoops]_vars

\* A decoder that has been called keeps running: Python executes the next
\* statement of a call until the call returns or raises.
FairLoops == SpecLoops /\ WF_vars(NextLoops)

\* ------------------------------------------------------------------ claims
Total == Len(packets[CLIENT]) + Len(packets[SERVER])
\* The packets delivered so far that came from side d, in delivery order.
DeliveredFrom(d) == SelectSeq(delivered, LAMBDA e : e.origin = d)
Pending(d) == ~IsNone(peek_next(streams[d]))
Other(d) == IF d = CLIENT THEN SERVER ELSE CLIENT

\* C1: when both input streams have non-decreasing timestamps, the packets
\* that repeated __next__ calls return have non-decreasing timestamps.
C1_MergedOrder ==
    (NonDecreasing(packets[CLIENT]) /\ NonDecreasing(packets[SERVER]))
        => \A i \in 1 .. Len(delivered) - 1 :
               delivered[i].pkt.time <= delivered[i + 1].pkt.time

\* Four packets merged, the sides alternating with strictly growing times.
C1_Witness ==
    /\ NonDecreasing(packets[CLIENT]) /\ NonDecreasing(packets[SERVER])
    /\ Len(delivered) = 4
    /\ delivered[1].origin = SERVER /\ delivered[2].origin = CLIENT
    /\ delivered[3].origin = SERVER /\ delivered[4].origin = CLIENT
    /\ delivered[1].pkt.time < delivered[2].pkt.time
    /\ delivered[2].pkt.time < delivered[3].pkt.time

\* C2: next_packet_origin is None exactly when neither stream has a pending
\* packet, the one side that has a pending packet when only one has, and with
\* both pending a side whose next_timestamp is smaller than or equal to the
\* other's.
C2_NextOrigin ==
    LET o == next_packet_origin(streams)
    IN  /\ IsNone(o) <=> (~Pending(CLIENT) /\ ~Pending(SERVER))
        /\ (Pending(CLIENT) /\ ~Pending(SERVER)) => o = Some(CLIENT)
        /\ (~Pending(CLIENT) /\ Pending(SERVER)) => o = Some(SERVER)
        /\ (Pending(CLIENT) /\ Pending(SERVER)) =>
               /\ ~IsNone(o)
               /\ Val(next_timestamp(streams[Val(o)]))
                      <= Val(next_timestamp(streams[Other(Val(o))]))

\* After some call, both sides pending and the server's packet the earlier.
C2_Witness ==
    /\ call.name \in {"read", "peek", "next_client", "next_server", "__next__"}
    /\ Pending(CLIENT) /\ Pending(SERVER)
    /\ Val(next_timestamp(streams[SERVER])) < Val(next_timestamp(streams[CLIENT]))
    /\ next_packet_origin(streams) = Some(SERVER)

\* C3: repeated __next__ returns every packet of both streams exactly once
\* and in each stream's order, and raises StopIteration after exactly
\* |client| + |server| deliveries and on every later call.
C3_InOrder ==
    \A d \in PacketOrigin :
        LET got == DeliveredFrom(d)
        IN  /\ Len(got) <= Len(packets[d])
            /\ \A i \in 1 .. Len(got) : got[i].pkt = packets[d][i]
C3_Step ==
    IF Len(delivered) = Total
    THEN ret'.kind = "StopIteration" /\ delivered' = delivered
    ELSE ret'.kind = "packet" /\ Len(delivered') = Len(delivered) + 1
             /\ delivered'[Len(delivered')].pkt = Val(ret'.pkt)
C3_Exhaustive ==
    /\ [](C3_InOrder /\ (ret.kind = "StopIteration" => Len(delivered) = Total))
    /\ [][C3_Step]_vars

\* Two packets a side delivered, then StopIteration.
C3_Witness ==
    /\ ret.kind = "StopIteration"
    /\ Len(packets[CLIENT]) = 2 /\ Len(packets[SERVER]) = 2
    /\ Len(delivered) = 4
    /\ delivered[1].origin = SERVER /\ delivered[2].origin = CLIENT

\* The bytes of buf at the positions lo, .., hi - 1 that the buffer has.
BytesAt(buf, lo, hi) == SubSeq(buf, Max(lo, 0) + 1, Min(hi, Len(buf)))
\* The payloads of the first k packets, concatenated.
RECURSIVE Concat(_, _)
Concat(pkts, k) == IF k = 0 THEN <<>> ELSE Concat(pkts, k - 1) \o pkts[k].load

\* C4: the reader's buffer is the concatenation of the first k payloads for
\* some k, and a read(n) returns the buffered bytes from the position it was
\* called at, at most n of them (all of them for n < 0).
C4_ReadFromPosition ==
    LET rd == readers[CLIENT]
    IN  /\ \E k \in 0 .. Len(packets[CLIENT]) : rd.buffer = Concat(packets[CLIENT], k)
        /\ call.name = "read" =>
               ret.data = BytesAt(rd.buffer, call.tell,
                                  IF call.size < 0 THEN Len(rd.buffer)
                                  ELSE call.tell + call.size)

\* C5: in every reader state and for every n > 0, peek(n) returns what a
\* read(n) right after it returns, and leaves tell() as it was.
C5_PeekThenRead ==
    \A n \in 1 .. MaxSize :
        LET p == ReaderPeek(packets[CLIENT], streams[CLIENT], readers[CLIENT], n)
            r == ReaderRead(packets[CLIENT], p.stream, p.reader, Some(n))
        IN  /\ p.data = r.data
            /\ tell(p.reader) = tell(readers[CLIENT])

\* C6: a backward seek (SEEK_CUR or SEEK_END with a negative offset) leaves
\* the position at max(0, target), target being the position before plus the
\* offset, or the buffered length plus the offset; the position is never
\* negative.
C6_BackwardSeekClamped ==
    LET rd == readers[CLIENT]
        target == IF call.whence = SEEK_CUR THEN call.tell + call.size
                  ELSE Len(rd.buffer) + call.size
    IN  /\ tell(rd) >= 0
        /\ (call.name = "seek" /\ call.size < 0 /\ call.whence \in {SEEK_CUR, SEEK_END})
               => tell(rd) = Max(0, target)

\* C7: after a read(k) made at position p, seek(p) and read(k) again return
\* the same bytes and pull no further payload.
C7_RereadAfterSeek ==
    \A k \in (-1) .. MaxSize :
        LET p  == tell(readers[CLIENT])
            r1 == ReaderRead(packets[CLIENT], streams[CLIENT], readers[CLIENT], Some(k))
            s  == ReaderSeek(packets[CLIENT], r1.stream, r1.reader, p, SEEK_SET)
            r2 == ReaderRead(packets[CLIENT], s.stream, s.reader, Some(k))
        IN  /\ ~s.raised
            /\ r2.data = r1.data
            /\ r2.stream = r1.stream
            /\ r2.reader.buffer = r1.reader.buffer

\* The flow (session key) a packet belongs to.
FlowOf(p) == [proto |-> p.proto, src |-> p.src, dst |-> p.dst]
OneFlow(pkts) == \A i \in 1 .. Len(pkts) : FlowOf(pkts[i]) = FlowOf(pkts[1])

\* C8: the client and server flows get_streams returns are the two opposite
\* directions of one TCP conversation.
C8_OneConversation ==
    gs.pc = "returned" =>
        LET cli == packets[CLIENT]
            srv == packets[SERVER]
        IN  /\ OneFlow(cli) /\ OneFlow(srv)
            /\ cli[1].proto = "TCP" /\ srv[1].proto = "TCP"
            /\ cli[1].src = srv[1].dst
            /\ cli[1].dst = srv[1].src

\* C9: the flow returned as server is the one whose first payload packet is
\* the earlier: server_first.time <= client_first.time.
C9_ServerFirst ==
    gs.pc = "returned" => packets[SERVER][1].time <= packets[CLIENT][1].time

\* get_streams returned after swapping: the flow it met first is the server.
C9_Witness ==
    /\ gs.pc = "returned"
    /\ packets[SERVER][1].time < packets[CLIENT][1].time
    /\ \E i, j \in 1 .. Len(pcap) :
           /\ i < j
           /\ FlowOf(pcap[i][1]) = FlowOf(packets[SERVER][1])
           /\ FlowOf(pcap[j][1]) = FlowOf(packets[CLIENT][1])

\* A 12-byte payload that starts with "RFB " and ends with a newline.
RfbBanner(load) ==
    /\ Len(load) = 12
    /\ load[1] = 82 /\ load[2] = 70 /\ load[3] = 66 /\ load[4] = 32
    /\ load[12] = 10
\* The TCP flows of the capture whose first payload is such a banner.
BannerFlows ==
    {i \in 1 .. Len(pcap) :
        /\ pcap[i][1].proto = "TCP"
        /\ \E j \in 1 .. Len(pcap[i]) :
               /\ Len(pcap[i][j].load) > 0
               /\ \A h \in 1 .. j - 1 : Len(pcap[i][h].load) = 0
               /\ RfbBanner(pcap[i][j].load)}

\* C10: on a capture with fewer than two TCP flows whose first payload is a
\* banner, get_streams goes on scanning until it raises ValueError, and
\* constructs and returns no stream.
C10_NotFoundRaises ==
    Cardinality(BannerFlows) < 2 =>
        /\ gs.pc \in {"scan", "raised"}
        /\ gs.pc = "scan" => ENABLED NextGetStreams
        /\ gs.pc = "raised" => ret.kind = "ValueError"
        /\ Len(packets[CLIENT]) = 0 /\ Len(packets[SERVER]) = 0

\* Three flows, one of them with a banner: the error is raised.
C10_Witness ==
    /\ Len(pcap) = 3
    /\ Cardinality(BannerFlows) = 1
    /\ gs.pc = "raised"
    /\ ret.kind = "ValueError"

\* The sides of the packets taken so far, in the order they were taken.
Origins == [i \in 1 .. Len(delivered) |-> delivered[i].origin]
\* The order of the handshake by direction, with or without the challenge and
\* its response.
HandshakeOrder(vnc) ==
    <<SERVER, CLIENT, SERVER, CLIENT>>
    \o (IF vnc THEN <<SERVER, CLIENT>> ELSE <<>>)
    \o <<SERVER, CLIENT, SERVER>>
Handshaken == hs.pc \in {"returned", "done"}

\* C11: process_handshake takes packets by direction in the order server,
\* client, server, client, (server, client when VNC authentication is
\* selected), server, client, server, each the next packet of its direction,
\* whatever the timestamps; a handshake that returns has taken 4 server and 3
\* client packets for NONE, 5 and 4 for VNC authentication, and the merger's
\* __next__ is never called.
C11_ByDirection ==
    LET expected == HandshakeOrder(rfb_status.security = Some(VNC_AUTHENTICATION))
    IN  /\ Len(delivered) <= Len(expected)
        /\ Origins = SubSeq(expected, 1, Len(delivered))
        /\ \A d \in PacketOrigin :
               /\ Len(DeliveredFrom(d)) <= Len(packets[d])
               /\ \A i \in 1 .. Len(DeliveredFrom(d)) :
                      DeliveredFrom(d)[i].pkt = packets[d][i]
        /\ call.name /= "__next__"
        /\ Handshaken =>
               /\ Origins = expected
               /\ Len(DeliveredFrom(SERVER)) =
                      (IF rfb_status.security = Some(NONE) THEN 4 ELSE 5)
               /\ Len(DeliveredFrom(CLIENT)) =
                      (IF rfb_status.security = Some(NONE) THEN 3 ELSE 4)

\* A VNC-authentication handshake has returned on a capture in which every
\* client packet is earlier than the first server packet.
C11_Witness ==
    /\ hs.pc = "returned"
    /\ rfb_status.security = Some(VNC_AUTHENTICATION)
    /\ Len(delivered) = 9
    /\ \A i \in 1 .. Len(packets[CLIENT]) :
           packets[CLIENT][i].time < packets[SERVER][1].time

\* (major, minor) order on versions, and the lower of two versions.
VersionLeq(a, b) == a[1] < b[1] \/ (a[1] = b[1] /\ a[2] <= b[2])
Lower(a, b) == IF VersionLeq(a, b) THEN a ELSE b
\* The versions the two banners taken by the handshake announce: the digits
\* at bytes 5..7 and 9..11 of the first packet of a side.
Announced(d) ==
    LET b == packets[d][1].load
    IN  <<(b[5] - 48) * 100 + (b[6] - 48) * 10 + (b[7] - 48),
          (b[9] - 48) * 100 + (b[10] - 48) * 10 + (b[11] - 48)>>
Effective == Lower(Announced(SERVER), Announced(CLIENT))
\* The third message of the handshake has been unpacked as some structure.
NegotiationBegun == Len(hs.unpacked) >= 3

\* C12: the effective protocol version, min(server, client) under (major,
\* minor) order, selects the form of the security negotiation: once the
\* negotiation has begun, the server's message was unpacked as a list of
\* security types when the effective version is above 3.3, and as one
\* server-mandated security type when it is 3.3 or lower.
C12_EffectiveVersionSelectsForm ==
    NegotiationBegun =>
        hs.unpacked[3] = (IF VersionLeq(Effective, <<3, 3>>)
                          THEN "ServerSecurityType" ELSE "SupportedSecurityTypes")

\* C13: when the effective protocol version is 3.3 or lower, the handshake
\* consumes no security-selection message from the client: no client payload
\* is unpacked as SelectedSecurityType, and the security type recorded is the
\* one in the server's 4-byte message.
C13_NoClientSelection ==
    (NegotiationBegun /\ VersionLeq(Effective, <<3, 3>>)) =>
        /\ \A i \in 1 .. Len(hs.unpacked) : hs.unpacked[i] /= "SelectedSecurityType"
        /\ hs.pc \notin {"cli_security_selected", "raised"} =>
               /\ Len(DeliveredFrom(CLIENT)) = 1
               /\ rfb_status.security = Some(packets[SERVER][2].load[4])

\* The security type the code unpacked from the client's selection message:
\* the first byte of the second client packet.
SelectionTaken == Len(DeliveredFrom(CLIENT)) >= 2
Selected == DeliveredFrom(CLIENT)[2].pkt.load[1]

\* C14: once the client's selection has been taken and it is neither NONE (1)
\* nor VNC_AUTHENTICATION (2), process_handshake has raised an error, no
\* packet beyond the four taken so far is ever taken from either stream, and
\* the context's framebuffer and shared_access stay unset.
C14_UnsupportedSecurityRaises ==
    (SelectionTaken /\ Selected \notin {1, 2}) =>
        /\ hs.pc = "raised"
        /\ hs.exc = "ValueError"
        /\ Len(DeliveredFrom(CLIENT)) = 2
        /\ Len(DeliveredFrom(SERVER)) = 2
        /\ rfb_status.framebuffer = None
        /\ rfb_status.shared_access = None

\* The client selected TIGHT (16), the handshake raised, and both streams
\* still hold packets that were not taken.
C14_Witness ==
    /\ SelectionTaken
    /\ Selected = 16
    /\ hs.pc = "raised"
    /\ Pending(CLIENT)
    /\ Pending(SERVER)

\* The server's security result as the code takes it: the packet after the
\* types (and after the challenge, when VNC authentication was selected),
\* read as a big-endian 32-bit number.
ResultIndex == IF rfb_status.security = Some(VNC_AUTHENTICATION) THEN 4 ELSE 3
ResultTaken ==
    /\ rfb_status.security \in {Some(NONE), Some(VNC_AUTHENTICATION)}
    /\ Len(DeliveredFrom(SERVER)) >= ResultIndex
ResultValue ==
    LET b == DeliveredFrom(SERVER)[ResultIndex].pkt.load
    IN  b[1] * 16777216 + b[2] * 65536 + b[3] * 256 + b[4]

\* C15: once a security result other than OK (0) has been taken,
\* process_handshake has raised an error; the packets after the result (the
\* ClientInit and the ServerInit) are never taken, shared_access is not set
\* and no framebuffer is constructed.
C15_FailedResultRaises ==
    (ResultTaken /\ ResultValue /= 0) =>
        /\ hs.pc = "raised"
        /\ hs.exc = "ValueError"
        /\ Len(DeliveredFrom(SERVER)) = ResultIndex
        /\ Len(DeliveredFrom(CLIENT)) = ResultIndex - 1
        /\ rfb_status.shared_access = None
        /\ rfb_status.framebuffer = None

\* The result FAILED (1) was taken after a VNC challenge and response, and the
\* ClientInit and the ServerInit are still pending.
C15_Witness ==
    /\ ResultTaken
    /\ ResultIndex = 4
    /\ ResultValue = 1
    /\ hs.pc = "raised"
    /\ Pending(CLIENT)
    /\ Pending(SERVER)

\* The ServerInit and the ClientInit of a handshake that returned: the last
\* handshake packet of each side.
ServerInitLoad == DeliveredFrom(SERVER)[ResultIndex + 1].pkt.load
ClientInitLoad == DeliveredFrom(CLIENT)[ResultIndex].pkt.load

\* C16: after a successful handshake the context holds a framebuffer whose
\* width, height and pixel format are those of the ServerInit (two big-endian
\* 16-bit numbers, then sixteen bytes of pixel format), its security field is
\* the selected security type, and shared_access is the ClientInit flag.
C16_ContextAfterHandshake ==
    Handshaken =>
        /\ rfb_status.framebuffer /= None
        /\ LET fb == Val(rfb_status.framebuffer)
               b  == ServerInitLoad
           IN  /\ fb.width = b[1] * 256 + b[2]
               /\ fb.height = b[3] * 256 + b[4]
               /\ fb.pix_fmt.bits_per_pixel = b[5]
               /\ fb.pix_fmt.depth = b[6]
               /\ fb.pix_fmt.big_endian = (b[7] /= 0)
               /\ fb.pix_fmt.true_colour = (b[8] /= 0)
               /\ fb.pix_fmt.red_max = b[9] * 256 + b[10]
               /\ fb.pix_fmt.green_max = b[11] * 256 + b[12]
               /\ fb.pix_fmt.blue_max = b[13] * 256 + b[14]
               /\ fb.pix_fmt.red_shift = b[15]
               /\ fb.pix_fmt.green_shift = b[16]
               /\ fb.pix_fmt.blue_shift = b[17]
        /\ rfb_status.security = Some(Selected)
        /\ rfb_status.shared_access = Some(ClientInitLoad[1] /= 0)

\* A handshake has returned on a ServerInit of 2 by 3 pixels and a ClientInit
\* asking for shared access.
C16_Witness ==
    /\ hs.pc = "returned"
    /\ Val(rfb_status.framebuffer).width = 2
    /\ Val(rfb_status.framebuffer).height = 3
    /\ rfb_status.shared_access = Some(TRUE)

\* The name carried in a ServerInit of a handshake that returned: the bytes
\* after the 32-bit length at bytes 21..24 ("Hi" is <<72, 105>>).
ServerInitName == SubSeq(ServerInitLoad, 25, 24 + ServerInitLoad[24])

\* C17: after a successful handshake the context's name is the name string
\* carried in ServerInit: "Hi" for a ServerInit whose name bytes are "Hi".
C17_NameFromServerInit ==
    (Handshaken /\ ServerInitName = <<72, 105>>) => rfb_status.name = Some(<<72, 105>>)

\* C18: when the replay has returned without an error, neither directional
\* stream has a pending packet: every packet after the handshake has been
\* taken and processed.
C18_ReplayExhaustsStreams ==
    hs.pc = "done" => (~Pending(CLIENT) /\ ~Pending(SERVER))

\* The handler invocations for one event, in the order they were made.
FiredFor(f, event) == SelectSeq(f, LAMBDA e : e.event = event)
\* The invocation the handler registered for an event receives, if there is
\* one: a single call with the argument.
OneCall(event, arg) ==
    IF ctx.event_handlers[event] = None THEN <<>>
    ELSE <<[event |-> event, handler |-> ctx.event_handlers[event][1], arg |-> arg]>>
IsPrefix(a, b) == Len(a) <= Len(b) /\ SubSeq(b, 1, Len(a)) = a
\* A message was unpacked and processed as the named event in this step.
Processed(name) == call'.name = name /\ ret'.kind = "none"
\* The key of a key message: the big-endian 32-bit number at bytes 4..7.
KeyCode(msg) == msg[4] * 16777216 + msg[5] * 65536 + msg[6] * 256 + msg[7]

\* C19: processing a KeyEvent with down = true appends the key's name or
\* literal character to the end of typed-text and invokes the registered
\* type_key handler exactly once with the key; with down = false typed-text
\* is unchanged and no handler is invoked; and no step of any kind does
\* anything to typed-text but append to it.
C19_KeyEventAppends ==
    [][/\ IsPrefix(ctx.typed_text, ctx'.typed_text)
       /\ Processed("KeyEvent") =>
              LET msg == call'.size
              IN  IF msg[1] /= 0
                  THEN /\ ctx'.typed_text = ctx.typed_text \o XKey_get_name(KeyCode(msg))
                       /\ fired' = fired \o OneCall("type_key", KeyCode(msg))
                  ELSE /\ ctx'.typed_text = ctx.typed_text
                       /\ fired' = fired]_vars

\* Return, then "A", were typed with a handler registered: typed-text ends
\* with "A" and the handler was called with key 65.
C19_Witness ==
    /\ ctx.typed_text = <<82, 101, 116, 117, 114, 110, 65>>
    /\ call.name = "KeyEvent"
    /\ Len(fired) > 0
    /\ fired[Len(fired)] = [event |-> "type_key", handler |-> "h1", arg |-> 65]

\* The text of a cut-text message: the bytes after the three bytes of padding
\* and the 32-bit length, one character per byte.
CutText(msg) == SubSeq(msg, 8, 7 + msg[7])

\* C20: the clipboard is empty before any cut-text message; a step that
\* processes a ClientCutText or ServerCutText message makes the clipboard
\* that message's text and invokes the registered clipboard handler exactly
\* once with it; any other step leaves the clipboard alone and invokes no
\* clipboard handler.  So the clipboard is always the text of the most
\* recently processed cut-text message.
C20_ClipboardIsLastCutText ==
    /\ ctx.clipboard = <<>>
    /\ [][IF Processed("ClientCutText") \/ Processed("ServerCutText")
          THEN /\ ctx'.clipboard = CutText(call'.size)
               /\ fired' = fired \o OneCall("clipboard", CutText(call'.size))
          ELSE /\ ctx'.clipboard = ctx.clipboard
               /\ FiredFor(fired', "clipboard") = FiredFor(fired, "clipboard")]_vars

\* "hello" was cut after another text, with a handler registered that was
\* called with "hello".
C20_Witness ==
    /\ ctx.clipboard = <<104, 101, 108, 108, 111>>
    /\ call.name \in {"ClientCutText", "ServerCutText"}
    /\ Len(fired) = 2
    /\ fired[1].event = "clipboard" /\ fired[1].arg = <<233>>
    /\ fired[2] = [event |-> "clipboard", handler |-> "h1",
                   arg |-> <<104, 101, 108, 108, 111>>]

\* The invocation a framebuffer handler registered for the event receives.
FramebufferCall(fb, event, arg) ==
    IF IsNone(fb.event_handlers[event]) THEN <<>>
    ELSE <<[event |-> event, handler |-> Val(fb.event_handlers[event]), arg |-> arg]>>
\* The pointer of a PointerEvent message: the button mask, x and y.
Pointer(msg) ==
    [button_mask |-> msg[1], x |-> msg[2] * 256 + msg[3], y |-> msg[4] * 256 + msg[5]]

\* C21: with a framebuffer, a whole PointerEvent at (x, y) raises nothing; on
\* the screen (x < width and y < height) it makes the cursor-path pixel at
\* (x, y) red and changes no other pixel, off the screen it leaves the
\* cursor-path image as it was; either way the cursor becomes the event's
\* (button mask, x, y) and the update_cursor_position handler, if one is
\* registered, is invoked exactly once, with that cursor.
C21_PointerMarksPath ==
    [][(call'.name = "PointerEvent" /\ Len(call'.size) >= 5 /\ ~IsNone(ctx.framebuffer))
       => LET fb == Val(ctx.framebuffer)
              after == Val(ctx'.framebuffer)
              at == Pointer(call'.size)
          IN  /\ ret'.kind = "none"
              /\ after.cursor_path_img.width = fb.cursor_path_img.width
              /\ after.cursor_path_img.height = fb.cursor_path_img.height
              /\ \A i \in 0 .. fb.width - 1, j \in 0 .. fb.height - 1 :
                     after.cursor_path_img.data[j * fb.width + i + 1] =
                         IF i = at.x /\ j = at.y THEN <<255, 0, 0, 255>>
                         ELSE fb.cursor_path_img.data[j * fb.width + i + 1]
              /\ after.cursor = Some(at)
              /\ fired' = fired \o FramebufferCall(fb, "update_cursor_position", at)]_vars

\* The pointer went to (2, 1) on the screen, which is red there and nowhere
\* else, and then right of the screen, to (3, 0); the handler was called once
\* for each move, and the cursor is the last one.
C21_Witness ==
    /\ call.name = "PointerEvent"
    /\ ret.kind = "none"
    /\ ~IsNone(ctx.framebuffer)
    /\ Val(ctx.framebuffer).cursor = Some([button_mask |-> 0, x |-> 3, y |-> 0])
    /\ Val(ctx.framebuffer).cursor_path_img.data =
           <<<<0, 0, 0, 0>>, <<0, 0, 0, 0>>, <<0, 0, 0, 0>>,
             <<0, 0, 0, 0>>, <<0, 0, 0, 0>>, <<255, 0, 0, 255>>>>
    /\ [i \in 1 .. Len(fired) |-> fired[i].arg] =
           <<[button_mask |-> 0, x |-> 2, y |-> 1], [button_mask |-> 0, x |-> 3, y |-> 0]>>

\* The dimensions of an image, and the number of pixels it holds.
Dimensions(image) == <<image.width, image.height, Len(image.data)>>

\* C22: the screen and the cursor-path image of a framebuffer have the
\* framebuffer's width and height when it is constructed, and no step (an
\* update of the screen, of the cursor or of the cursor position, a
\* SetPixelFormat) changes the framebuffer's width or height or the dimensions
\* of either image.
C22_ImagesKeepSize ==
    /\ ~IsNone(ctx.framebuffer) =>
           LET fb == Val(ctx.framebuffer)
           IN  /\ Dimensions(fb.screen) = <<fb.width, fb.height, fb.width * fb.height>>
               /\ Dimensions(fb.cursor_path_img) =
                      <<fb.width, fb.height, fb.width * fb.height>>
    /\ [][~IsNone(ctx.framebuffer) =>
              /\ ~IsNone(ctx'.framebuffer)
              /\ Val(ctx'.framebuffer).width = Val(ctx.framebuffer).width
              /\ Val(ctx'.framebuffer).height = Val(ctx.framebuffer).height
              /\ Dimensions(Val(ctx'.framebuffer).screen) =
                     Dimensions(Val(ctx.framebuffer).screen)
              /\ Dimensions(Val(ctx'.framebuffer).cursor_path_img) =
                     Dimensions(Val(ctx.framebuffer).cursor_path_img)]_vars

\* The screen was updated with a rectangle of one pixel, the cursor image
\* set, the pointer moved and the pixel format changed to 32 bits per pixel:
\* both images are still three pixels by two.
C22_Witness ==
    /\ ~IsNone(ctx.framebuffer)
    /\ Val(ctx.framebuffer).pix_fmt.bits_per_pixel = 32
    /\ ~IsNone(Val(ctx.framebuffer).cursor_img)
    /\ ~IsNone(Val(ctx.framebuffer).cursor)
    /\ Val(ctx.framebuffer).cursor_path_img.data[2] = <<255, 0, 0, 255>>
    /\ call.name = "FramebufferUpdate" /\ call.size = FramebufferUpdates.raw32
    /\ ret.kind = "none"
    /\ Val(ctx.framebuffer).screen.data[1] = <<1, 2, 3>>
    /\ Dimensions(Val(ctx.framebuffer).screen) = <<3, 2, 6>>
    /\ Dimensions(Val(ctx.framebuffer).cursor_path_img) = <<3, 2, 6>>

\* The pixel at index k of a screen width pixels wide lies outside the rectangle.
OutsideRectangle(k, rectangle, width) ==
    LET i == (k - 1) % width
        j == (k - 1) \div width
    IN  \/ i < rectangle.x \/ i >= rectangle.x + rectangle.width
        \/ j < rectangle.y \/ j >= rectangle.y + rectangle.height

\* C23: with a screen_update handler registered, a FramebufferUpdate invokes
\* the handler exactly once per rectangle it processes (every rectangle, when
\* it returns; those before the one that raises, otherwise), in the order of
\* the rectangles in the message and with each rectangle's own x, y, width
\* and height; the screen handed to the i-th invocation differs from the
\* screen handed to the one before (from the screen before the message, for
\* the first) only inside the i-th rectangle, and the screen handed to the
\* last invocation is the screen the message leaves: each paste has been made
\* when its handler runs, and no later paste has.
C23_PasteThenHandlerInOrder ==
    [][(/\ call'.name = "FramebufferUpdate"
        /\ ~IsNone(ctx.framebuffer)
        /\ ~IsNone(Val(ctx.framebuffer).event_handlers["screen_update"])
        /\ FramebufferUpdate_unpack(call'.size, ctx).raised = "")
       => LET fb == Val(ctx.framebuffer)
              rects == FramebufferUpdate_unpack(call'.size, ctx).value.rectangles
              new == SubSeq(fired', Len(fired) + 1, Len(fired'))
              Before(i) == IF i = 1 THEN fb.screen ELSE new[i - 1].arg.screen
          IN  /\ IsPrefix(fired, fired')
              /\ Len(new) <= Len(rects)
              /\ ret'.kind = "none" => Len(new) = Len(rects)
              /\ \A i \in 1 .. Len(new) :
                     /\ new[i].event = "screen_update"
                     /\ new[i].arg.rectangle = rects[i].rectangle
                     /\ Dimensions(new[i].arg.screen) = Dimensions(fb.screen)
                     /\ \A k \in 1 .. Len(fb.screen.data) :
                            OutsideRectangle(k, rects[i].rectangle, fb.width)
                                => new[i].arg.screen.data[k] = Before(i).data[k]
              /\ Before(Len(new) + 1) = Val(ctx'.framebuffer).screen]_vars

\* The update of the whole screen followed by the copy of its two left columns
\* to the right was processed with a handler registered: the handler saw the
\* six pixels as sent, with the rectangle of the whole screen, and then the
\* screen after the copy, with the rectangle of the copy.
C23_Witness ==
    /\ call.name = "FramebufferUpdate" /\ call.size = FramebufferUpdates.mixed
    /\ ret.kind = "none"
    /\ Len(fired) = 2
    /\ fired[1].arg.rectangle = [x |-> 0, y |-> 0, width |-> 3, height |-> 2]
    /\ fired[1].arg.screen.data =
           <<<<36, 0, 0>>, <<72, 0, 0>>, <<109, 0, 0>>,
             <<145, 0, 0>>, <<182, 0, 0>>, <<218, 0, 0>>>>
    /\ fired[2].arg.rectangle = [x |-> 1, y |-> 0, width |-> 2, height |-> 2]
    /\ fired[2].arg.screen.data =
           <<<<36, 0, 0>>, <<36, 0, 0>>, <<72, 0, 0>>,
             <<145, 0, 0>>, <<145, 0, 0>>, <<182, 0, 0>>>>
    /\ fired[2].arg.screen = Val(ctx.framebuffer).screen

\* C24: a Raw rectangle of size (w, h) takes exactly w * h * bytes_per_pixel
\* payload bytes from the stream, whatever the size of the framebuffer.
C24_RawPayloadIsRectangle ==
    [][(/\ call'.name = "FramebufferUpdate"
        /\ FramebufferUpdate_unpack(call'.size, ctx).raised = "")
       => \A i \in 1 .. Len(FramebufferUpdate_unpack(call'.size, ctx).value.rectangles) :
              LET rect == FramebufferUpdate_unpack(call'.size, ctx).value.rectangles[i]
              IN  rect.encoding = RAW
                      => rect.payload = rect.rectangle.width * rect.rectangle.height
                                        * bytes_per_pixel(Val(ctx.framebuffer).pix_fmt)]_vars

\* The compressed bytes of a rectangle: those of a ZLIB or ZRLE rectangle, or
\* of the ZLIB or ZRLE pixel data of a cursor rectangle.
Compressed(rect) ==
    IF rect.encoding \in {ZLIB, ZRLE} THEN rect.data.zlib_data
    ELSE IF rect.encoding = PSEUDO_CURSOR_WITH_ALPHA /\ rect.data.encoding \in {ZLIB, ZRLE}
    THEN rect.data.cursor_pixels.zlib_data
    ELSE <<>>
\* The compressed bytes of the first n rectangles, one after the other.
RECURSIVE CompressedUpTo(_, _)
CompressedUpTo(rects, n) ==
    IF n = 0 THEN <<>> ELSE CompressedUpTo(rects, n - 1) \o Compressed(rects[n])

\* C25: the session has one inflate state that is never replaced or reset: a
\* FramebufferUpdate feeds it the compressed bytes of its ZLIB and ZRLE
\* rectangles, those nested in a cursor rectangle included, in the order of
\* the rectangles (all of them when it returns, those up to the rectangle
\* that raises otherwise), behind everything it was fed before; what the
\* state has inflated so far stays in its window, and no other step touches
\* it.
C25_OneInflateState ==
    [][LET z == ctx.zlib_decompressor
           after == ctx'.zlib_decompressor
           ev == FramebufferUpdate_unpack(call'.size, ctx)
       IN  /\ IsPrefix(z.fed, after.fed)
           /\ IsPrefix(z.window, after.window)
           /\ z.bad => after.bad
           /\ IF call'.name = "FramebufferUpdate" /\ ev.raised = ""
              THEN /\ \E n \in 0 .. Len(ev.value.rectangles) :
                          after.fed = z.fed \o CompressedUpTo(ev.value.rectangles, n)
                   /\ ret'.kind = "none" =>
                          after.fed = z.fed \o CompressedUpTo(ev.value.rectangles,
                                                              Len(ev.value.rectangles))
              ELSE after = z]_vars

\* A cursor rectangle with compressed pixels was processed and then, in
\* another message, a compressed rectangle that is one copy of the last byte
\* inflated: the state was fed both, in that order, and the pixel painted at
\* (2, 1) is the byte 9 of the cursor's data.
C25_Witness ==
    /\ call.name = "FramebufferUpdate" /\ call.size = FramebufferUpdates.again
    /\ ret.kind = "none"
    /\ ctx.zlib_decompressor.fed = <<9, 128, 128, 128, 128>>
    /\ ctx.zlib_decompressor.window = <<9, 9, 9, 9, 9>>
    /\ Val(Val(ctx.framebuffer).cursor_img).data = <<<<9, 9, 9, 9>>>>
    /\ Val(ctx.framebuffer).screen.data[6] = <<36, 36, 0>>

\* C26: a FramebufferUpdate of one CopyRect rectangle that returns leaves
\* every pixel outside the destination rectangle as it was, and makes every
\* pixel of the destination the pixel that was at the same place of the source
\* rectangle before the message (for the pixels of the source that are on the
\* screen), whether or not the two rectangles overlap.
C26_CopyRectCopiesSource ==
    [][(/\ call'.name = "FramebufferUpdate"
        /\ ret'.kind = "none"
        /\ FramebufferUpdate_unpack(call'.size, ctx).raised = ""
        /\ Len(FramebufferUpdate_unpack(call'.size, ctx).value.rectangles) = 1
        /\ FramebufferUpdate_unpack(call'.size, ctx).value.rectangles[1].encoding = COPYRECT)
       => LET rect == FramebufferUpdate_unpack(call'.size, ctx).value.rectangles[1]
              before == Val(ctx.framebuffer).screen
              after == Val(ctx'.framebuffer).screen
          IN  /\ Dimensions(after) = Dimensions(before)
              /\ \A k \in 1 .. Len(before.data) :
                     LET i == ((k - 1) % before.width) - rect.rectangle.x + rect.data.src_x
                         j == ((k - 1) \div before.width) - rect.rectangle.y + rect.data.src_y
                     IN  IF OutsideRectangle(k, rect.rectangle, before.width)
                         THEN after.data[k] = before.data[k]
                         ELSE (i < before.width /\ j < before.height)
                                  => after.data[k] = before.data[j * before.width + i + 1]]_vars

\* The six different pixels of the screen, then the copy of the two left
\* columns one pixel to the right, source and destination sharing the middle
\* column: the right columns hold what the left columns held, the left column
\* is as it was.
C26_Witness ==
    /\ call.name = "FramebufferUpdate" /\ call.size = FramebufferUpdates.copy
    /\ ret.kind = "none"
    /\ Val(ctx.framebuffer).screen.data =
           <<<<36, 0, 0>>, <<36, 0, 0>>, <<72, 0, 0>>,
             <<145, 0, 0>>, <<145, 0, 0>>, <<182, 0, 0>>>>

\* The size of a compact pixel in a pixel format: three bytes when the format
\* is true colour with 32 bits per pixel and a depth of at most 24, the bytes
\* of a pixel otherwise.
CompactPixel(pf) ==
    IF pf.true_colour /\ pf.bits_per_pixel = 32 /\ pf.depth <= 24 THEN 3
    ELSE pf.bits_per_pixel \div 8

\* C27: whenever decode_zrle_tile returns for a tile of size (tw, th), it
\* returns exactly tw * th * cpixel_size bytes, whatever the sub-encoding byte
\* and however many bytes follow it.
C27_TileLength ==
    (call.name = "decode_zrle_tile" /\ ret.kind = "bytes")
        => Len(ret.data) = call.size.size[1] * call.size.size[2]
                           * CompactPixel(call.size.pix_fmt)

\* A plain RLE tile of two by two pixels of one byte whose single run is 256
\* pixels long: four pixels are returned.
C27_Witness ==
    /\ call.name = "decode_zrle_tile"
    /\ call.size.data = <<128, 2, 255, 0>>
    /\ call.size.size = <<2, 2>>
    /\ call.size.pix_fmt.bits_per_pixel = 8
    /\ ret.kind = "bytes"
    /\ ret.data = <<2, 2, 2, 2>>

\* The tiles of a rectangle of the given width and height, row after row: tiles
\* of 64 by 64 from the top left corner, the last of a row and the rows of the
\* last row of tiles being cut to the rectangle.
TilesOf(width, height) ==
    LET columns == (width + 63) \div 64
        rows == (height + 63) \div 64
    IN  [i \in 1 .. columns * rows |->
             LET tx == ((i - 1) % columns) * 64
                 ty == ((i - 1) \div columns) * 64
             IN  [x |-> tx, y |-> ty, w |-> Min(64, width - tx), h |-> Min(64, height - ty)]]

\* C28: when decode_zrle returns for a rectangle of size (W, H), the tiles it
\* decoded are the ceil(W/64) * ceil(H/64) tiles of the rectangle in row-major
\* order, the tile at (tx, ty) of size (min(64, W - tx), min(64, H - ty)).
C28_TilesCoverRectangle ==
    (call.name = "decode_zrle" /\ ret.kind = "bytes")
        => ret.tiles = TilesOf(call.size.size[1], call.size.size[2])

\* (p >> shift) & max for the pixel p whose bytes are given, the least
\* significant first, and a channel of at most 16 bits: the three bytes from
\* bit shift on hold every bit that max can keep.
ShiftAndMask(le, shift, max) ==
    LET Byte(j) == IF j <= Len(le) THEN le[j] ELSE 0
        q == shift \div 8
        shifted == ((Byte(q + 1) + 256 * Byte(q + 2) + 65536 * Byte(q + 3))
                        \div 2 ^ (shift % 8)) % 65536
        RECURSIVE And(_, _)
        And(a, b) == IF a = 0 \/ b = 0 THEN 0
                     ELSE (a % 2) * (b % 2) + 2 * And(a \div 2, b \div 2)
    IN  And(shifted, max)

\* C29: for a true-colour format whose channel maxes are not zero,
\* decode_pixel_data gives for each pixel p, read big- or little-endian as the
\* format says, the values ((p >> shift_c) & max_c) * 255 div max_c for c = red,
\* green, blue, each within 0..255; under the identity format (32 bits per
\* pixel, maxes 255, shifts 16/8/0, little-endian) these are the pixel's own
\* red, green and blue bytes.
C29_PixelToRGB ==
    LET pf == call.size.pix_fmt
        bpp == pf.bits_per_pixel \div 8
        Pixel(i) == SubSeq(call.size.data, (i - 1) * bpp + 1, i * bpp)
        LittleEndian(p) == IF pf.big_endian THEN [j \in 1 .. Len(p) |-> p[Len(p) + 1 - j]]
                           ELSE p
        Scaled(p, shift, max) == (ShiftAndMask(LittleEndian(p), shift, max) * 255) \div max
    IN  (/\ call.name = "decode_pixel_data"
         /\ ret.kind /= "none"
         /\ pf.true_colour
         /\ 0 \notin {pf.red_max, pf.green_max, pf.blue_max, bpp})
            => /\ ret.kind = "bytes"
               /\ Len(ret.data) >= 3 * (Len(call.size.data) \div bpp)
               /\ \A k \in 1 .. Len(ret.data) : ret.data[k] \in 0 .. 255
               /\ \A i \in 1 .. Len(call.size.data) \div bpp :
                      /\ SubSeq(ret.data, 3 * i - 2, 3 * i)
                             = << Scaled(Pixel(i), pf.red_shift, pf.red_max),
                                  Scaled(Pixel(i), pf.green_shift, pf.green_max),
                                  Scaled(Pixel(i), pf.blue_shift, pf.blue_max) >>
                      /\ (/\ bpp = 4 /\ ~pf.big_endian
                          /\ <<pf.red_max, pf.green_max, pf.blue_max>> = <<255, 255, 255>>
                          /\ <<pf.red_shift, pf.green_shift, pf.blue_shift>> = <<16, 8, 0>>)
                             => SubSeq(ret.data, 3 * i - 2, 3 * i)
                                    = <<Pixel(i)[3], Pixel(i)[2], Pixel(i)[1]>>

\* Under the identity format the pixel of bytes 2, 129, 255, 129 has given
\* red 255, green 129 and blue 2.
C29_Witness ==
    /\ call.name = "decode_pixel_data"
    /\ call.size.data = <<2, 129, 255, 129>>
    /\ call.size.pix_fmt.bits_per_pixel = 32
    /\ ~call.size.pix_fmt.big_endian
    /\ call.size.pix_fmt.true_colour
    /\ call.size.pix_fmt.red_shift = 16
    /\ ret.kind = "bytes"
    /\ ret.data = <<255, 129, 2>>

\* A pixel of a format with three bits of red, three of green and two of blue
\* has been scaled: 129 = 1 + 128 gives red 1 * 255 div 7, green 0, blue
\* 2 * 255 div 3.
C29_WitnessScaled ==
    /\ call.name = "decode_pixel_data"
    /\ call.size.data = <<129>>
    /\ call.size.pix_fmt.bits_per_pixel = 8
    /\ call.size.pix_fmt.true_colour
    /\ <<call.size.pix_fmt.red_max, call.size.pix_fmt.blue_shift>> = <<7, 6>>
    /\ ret.kind = "bytes"
    /\ ret.data = <<36, 0, 170>>

\* C30: on every tile input (any sub-encoding byte, any truncation point, any
\* palette index, any tile width and height of at least 1) decode_zrle_tile
\* returns a tile and raises nothing.
C30_TileNeverRaises ==
    (call.name = "decode_zrle_tile" /\ ret.kind /= "none") => ret.kind = "bytes"

\* C31: a rectangle of a stubbed encoding is skipped.  For a FramebufferUpdate
\* whose rectangles are Raw, CopyRect or of a stubbed encoding (RRE, CoRRE,
\* Hextile, Tight, ZlibHex, JPEG, Open H.264, Tight PNG), processed with a
\* framebuffer and a screen_update handler: nothing is raised, screen_update
\* fires once for each rectangle that is not stubbed, in their order, and never
\* for a stubbed one, and when every rectangle is stubbed the screen is left
\* as it was.
C31_StubbedRectangleSkipped ==
    [][(/\ call'.name = "FramebufferUpdate"
        /\ ~IsNone(ctx.framebuffer)
        /\ ~IsNone(Val(ctx.framebuffer).event_handlers["screen_update"])
        /\ FramebufferUpdate_unpack(call'.size, ctx).raised = ""
        /\ \A i \in DOMAIN FramebufferUpdate_unpack(call'.size, ctx).value.rectangles :
               FramebufferUpdate_unpack(call'.size, ctx).value.rectangles[i].encoding
                   \in Encoding \ {ZLIB, ZRLE, PSEUDO_CURSOR_WITH_ALPHA})
       => LET rects == FramebufferUpdate_unpack(call'.size, ctx).value.rectangles
              kept == SelectSeq(rects, LAMBDA rect : rect.encoding \in {RAW, COPYRECT})
              new == SubSeq(fired', Len(fired) + 1, Len(fired'))
          IN  /\ ret'.kind = "none"
              /\ Len(new) = Len(kept)
              /\ \A i \in 1 .. Len(new) :
                     /\ new[i].event = "screen_update"
                     /\ new[i].arg.rectangle = kept[i].rectangle
              /\ kept = <<>>
                     => Val(ctx'.framebuffer).screen = Val(ctx.framebuffer).screen]_vars

\* C32: processing SetEncodings, FramebufferUpdateRequest or Bell leaves the
\* session as it was (typed text, clipboard, handlers, framebuffer with its
\* pixel format, screen, cursor and cursor path, inflate state) and invokes no
\* handler; processing SetPixelFormat invokes no handler and changes nothing
\* but the framebuffer's pixel format, and with no framebuffer it raises and
\* changes nothing.
C32_QuietEvents ==
    [][/\ call'.name \in {"SetEncodings", "FramebufferUpdateRequest", "Bell"}
           => ctx' = ctx /\ fired' = fired
       /\ call'.name = "SetPixelFormat"
           => /\ fired' = fired
              /\ IF IsNone(ctx.framebuffer) THEN ret'.kind /= "none" /\ ctx' = ctx
                 ELSE /\ ~IsNone(ctx'.framebuffer)
                      /\ ctx' = [ctx EXCEPT !.framebuffer =
                                    Some([Val(@) EXCEPT !.pix_fmt =
                                             Val(ctx'.framebuffer).pix_fmt])]
                      /\ ret'.kind = "none"
                             => Val(ctx'.framebuffer).pix_fmt.bits_per_pixel
                                    = call'.size[4]]_vars

\* Bell has been processed in a session that has typed text, a clipboard, a
\* painted screen, a cursor, a marked cursor path, bytes inflated and handlers
\* registered.
C32_Witness ==
    /\ call.name = "Bell" /\ ret.kind = "none"
    /\ ctx.typed_text /= <<>>
    /\ ~IsNone(ctx.clipboard)
    /\ ~IsNone(ctx.event_handlers["clipboard"])
    /\ ctx.zlib_decompressor.fed /= <<>>
    /\ ~IsNone(ctx.framebuffer)
    /\ ~IsNone(Val(ctx.framebuffer).cursor_img)
    /\ Val(ctx.framebuffer).screen.data[1] /= <<0, 0, 0>>
    /\ Val(ctx.framebuffer).cursor_path_img.data[2] = <<255, 0, 0, 255>>
    /\ ~IsNone(Val(ctx.framebuffer).event_handlers["update_cursor_position"])
    /\ fired /= <<>>

\* SetPixelFormat has replaced a format of 8 bits per pixel by one of 32 on a
\* painted screen.
C32_WitnessFormat ==
    /\ call.name = "SetPixelFormat" /\ ret.kind = "none"
    /\ Val(ctx.framebuffer).pix_fmt.bits_per_pixel = 32
    /\ Val(ctx.framebuffer).screen.data[1] /= <<0, 0, 0>>

\* C33: in a packed-palette tile (sub-encoding n in 2..16, indices of 1, 2 or
\* 4 bits) whose palette and packed rows are all there and whose indices are
\* all below n, the pixel at row r and column c is the palette entry selected
\* by the c-th field, the most significant first, of the bytes of row r, the
\* rows starting at the packed offsets r * ceil(tw * b / 8).
C33_PackedPaletteRows ==
    LET data == call.size.data
        tw == call.size.size[1]
        th == call.size.size[2]
        cp == CompactPixel(call.size.pix_fmt)
        n == data[1]
        b == IF n = 2 THEN 1 ELSE IF n <= 4 THEN 2 ELSE 4
        row_bytes == (tw * b + 7) \div 8
        Packed(j) == data[1 + n * cp + j]
        Index(r, c) == (Packed(r * row_bytes + ((c * b) \div 8) + 1)
                            \div 2 ^ (8 - b - ((c * b) % 8))) % 2 ^ b
        Entry(k) == SubSeq(data, 2 + k * cp, 1 + (k + 1) * cp)
    IN  (/\ call.name = "decode_zrle_tile"
         /\ ret.kind /= "none"
         /\ data /= <<>>
         /\ data[1] \in 2 .. 16
         /\ Len(data) >= 1 + n * cp + row_bytes * th
         /\ \A r \in 0 .. th - 1, c \in 0 .. tw - 1 : Index(r, c) < n)
            => /\ ret.kind = "bytes"
               /\ \A r \in 0 .. th - 1, c \in 0 .. tw - 1 :
                      SubSeq(ret.data, (r * tw + c) * cp + 1, (r * tw + c + 1) * cp)
                          = Entry(Index(r, c))

\* The runs of a plain RLE body from offset p (counted from 0) on, for compact
\* pixels of cp bytes: each run is its pixel, its length (1 plus the sum of
\* its length bytes up to and including the first below 255) and the offset
\* behind it.  The runs stop where the data does not hold a whole run.
RECURSIVE RunsFrom(_, _, _)
RunsFrom(data, p, cp) ==
    LET RECURSIVE LengthBytes(_)
        \* the number of length bytes of the run whose lengths start at q, 0
        \* when they are cut short
        LengthBytes(q) ==
            IF q >= Len(data) THEN 0
            ELSE IF data[q + 1] < 255 THEN 1
            ELSE IF LengthBytes(q + 1) = 0 THEN 0 ELSE 1 + LengthBytes(q + 1)
        k == LengthBytes(p + cp)
        RECURSIVE Sum(_, _)
        Sum(q, m) == IF m = 0 THEN 0 ELSE data[q + 1] + Sum(q + 1, m - 1)
    IN  IF p + cp > Len(data) \/ k = 0 THEN <<>>
        ELSE <<[pixel |-> SubSeq(data, p + 1, p + cp), length |-> 1 + Sum(p + cp, k),
                end |-> p + cp + k]>>
             \o RunsFrom(data, p + cp + k, cp)

\* C34: for a plain RLE tile whose first runs cover exactly tw * th pixels,
\* decode_zrle_tile stops reading behind the last of those runs and returns
\* each run's compact pixel repeated as many times as the run is long.
C34_PlainRleRuns ==
    LET data == call.size.data
        cp == CompactPixel(call.size.pix_fmt)
        total == call.size.size[1] * call.size.size[2]
        runs == RunsFrom(data, 1, cp)
        RECURSIVE Pixels(_)
        Pixels(n) == IF n = 0 THEN 0 ELSE Pixels(n - 1) + runs[n].length
    IN  (/\ call.name = "decode_zrle_tile"
         /\ ret.kind /= "none"
         /\ data /= <<>>
         /\ data[1] = 128
         /\ \E n \in 1 .. Len(runs) : Pixels(n) = total)
            => LET n == CHOOSE n \in 1 .. Len(runs) : Pixels(n) = total
                   RECURSIVE Repeated(_, _)
                   Repeated(i, m) ==
                       IF i > n THEN <<>>
                       ELSE IF m = 0 THEN Repeated(i + 1, IF i < n THEN runs[i + 1].length ELSE 0)
                       ELSE runs[i].pixel \o Repeated(i, m - 1)
               IN  /\ ret.kind = "bytes"
                   /\ ret.pos = runs[n].end
                   /\ ret.data = Repeated(1, runs[1].length)

\* C35: whenever next_packet_origin names a side, the next call of the
\* merger's __next__ returns a packet of that side's stream.
C35_OriginAnnouncesNext ==
    [][(call'.name = "__next__" /\ ~IsNone(next_packet_origin(streams)))
       => /\ ret'.kind = "packet"
          /\ Len(delivered') = Len(delivered) + 1
          /\ delivered'[Len(delivered')].origin = Val(next_packet_origin(streams))
          /\ ret'.pkt = peek_next(streams[Val(next_packet_origin(streams))])]_vars

\* C36: whenever next_packet_origin is None, neither byte reader holds bytes
\* that were pulled from a packet and have not been read.
C36_NoneLeavesNothingBuffered ==
    IsNone(next_packet_origin(streams))
        => \A d \in PacketOrigin : tell(readers[d]) >= Len(readers[d].buffer)

\* C37: after any read, peek or seek on a DataStreamReader, 0 <= tell() <= the
\* number of bytes buffered; a read(n) that returns fewer than n bytes has
\* advanced the position by the number of bytes it returned.
C37_PositionWithinBuffer ==
    \A d \in PacketOrigin :
        /\ 0 <= tell(readers[d])
        /\ tell(readers[d]) <= Len(readers[d].buffer)
        /\ (call.name = "read" /\ call.origin = d /\ call.size >= 0)
               => tell(readers[d]) = call.tell + Len(ret.data)

\* C38: peek(1) on a directional byte reader changes nothing the merger
\* observes: the stream's timestamp, its next_timestamp and the merger's
\* next_packet_origin are after the peek what they were before it.
C38_PeekUnobserved ==
    [][(call'.name = "peek" /\ call'.size = 1)
       => /\ \A d \in PacketOrigin :
                 /\ streams'[d].timestamp = streams[d].timestamp
                 /\ next_timestamp(streams'[d]) = next_timestamp(streams[d])
          /\ next_packet_origin(streams') = next_packet_origin(streams)]_vars

\* C39: when decode_zrle returns for a rectangle of size (W, H), it returns
\* exactly W * H * bytes_per_pixel bytes, in every pixel format.
C39_RectangleLength ==
    (call.name = "decode_zrle" /\ ret.kind = "bytes")
        => Len(ret.data) = call.size.size[1] * call.size.size[2]
                           * (call.size.pix_fmt.bits_per_pixel \div 8)

\* The decoder followed step by step has left what the decoder computed as a
\* whole leaves: the same exception or bytes, offset and tiles.
LoopsAgree ==
    /\ (call.name = "decode_zrle_tile" /\ ret.kind \notin {"none", "running"})
           => LET r == decode_zrle_tile(call.size.data, 0, call.size.size,
                                        call.size.pix_fmt)
              IN  ret = Finished(r.raised, r.pixdata, r.pos, <<>>)
    /\ (call.name = "decode_zrle" /\ ret.kind \notin {"none", "running"})
           => LET r == decode_zrle(call.size.data, call.size.size, call.size.pix_fmt)
              IN  ret = Finished(r.raised, r.value, r.pos, r.tiles)


\* The tiles decode_zrle still has to visit, counted so that every passage
\* through one of its loop tests makes the number smaller: the rows of tiles
\* from tile_y on, each with the tiles of a row and the two tests around them.
TilesAhead(r) ==
    LET columns == (call.size.size[1] + 63) \div 64
        rows_left == Max(0, (call.size.size[2] - r.tile.y + 63) \div 64)
        columns_left == Max(0, (call.size.size[1] - r.tile.x + 63) \div 64)
    IN  rows_left * (columns + 2) + (IF r.loop = "outer" THEN columns + 1 ELSE columns_left)

\* C40: decode_zrle_tile and decode_zrle terminate on every input.  Each
\* iteration of the plain RLE and palette RLE loops consumes input, grows the
\* output or ends the call; each passage through a loop test of decode_zrle
\* leaves fewer tiles ahead or ends the call; and every call returns or
\* raises in the end.
C40_Terminates ==
    /\ [][ret.kind = "running"
            => \/ ret'.kind /= "running"
               \/ /\ ret.loop \in {"plain", "palette"}
                  /\ ret'.pos > ret.pos \/ Len(ret'.data) > Len(ret.data)
               \/ /\ ret.loop \in {"outer", "inner"}
                  /\ TilesAhead(ret') < TilesAhead(ret)]_vars
    /\ <>(ret.kind \notin {"none", "running"})

\* A plain RLE tile of two by two pixels of three bytes has been decoded in
\* two passes through the loop, up to the offset behind its second run.
C40_Witness ==
    /\ call.name = "decode_zrle_tile"
    /\ call.size.data = <<128, 2, 129, 255, 0, 0, 2, 129, 2, 7>>
    /\ call.size.size = <<2, 2>>
    /\ call.size.pix_fmt.bits_per_pixel = 32
    /\ ret.kind = "bytes"
    /\ ret.pos = 9

\* A rectangle of three tiles in a row has been decoded.
C40_WitnessTiles ==
    /\ call.name = "decode_zrle"
    /\ call.size.size = <<129, 1>>
    /\ ret.kind = "bytes"
    /\ Len(ret.tiles) = 3



====
